---- MODULE Spec2Model ----
(***************************************************************************)
(* A model of the grid walker of noisy-nyc: the grid <-> lat/lng mapping,  *)
(* the navigation handlers of the ComplaintMap component and the browser   *)
(* street-view cache (memory tier + localStorage tier).                    *)
(*                                                                         *)
(* Numbers.  TLC integers are 32 bits wide, JavaScript numbers are         *)
(* doubles.  Grid coordinates are small integers and are kept as they are. *)
(* Geographic coordinates are kept in fixed point, in units of 1e-7 degree *)
(* ("E7", about 1.1 cm of latitude); distances returned by distanceBetween *)
(* are in centimetres.  The 32-bit random seed is kept as two 16-bit       *)
(* limbs.  Times are milliseconds since the page was opened.               *)
(*                                                                         *)
(* Text.  Template literals are modelled as string concatenation; the two  *)
(* non-ASCII characters of the messages (the em dash and the typographic   *)
(* apostrophe) are written "--" and "'".                                   *)
(***************************************************************************)
EXTENDS Integers, Sequences, FiniteSets, TLC

VARIABLES
    position,     \* useState<GridPosition>            ComplaintMap.tsx:312
    heading,      \* useState<Heading>                 ComplaintMap.tsx:322
    statusLine,   \* useState<string>                  ComplaintMap.tsx:323
    memo,         \* the useMemo values of the render   ComplaintMap.tsx:332
    lastOp,       \* history: the last two handlers and the states they ran in
    run,          \* history: the current run of identical consecutive turns
    hasWindow,          \* typeof window !== "undefined"
    storageWorks,       \* window.localStorage accepts the probe write
    persistentStorage,  \* let persistentStorage          part_000:39
    memoryCache,        \* const memoryCache = new Map()  part_000:23
    localStorage,       \* window.localStorage, key -> stored string
    now,                \* Date.now()
    ticks,              \* history: the number of clock advances so far
    writes,             \* history: the number of setCachedStreetView calls so far
    lastCall,           \* history: the last cache call, what it found and returned
    selImages,          \* the data array of an upstream response
    selBearing,         \* the bearing asked for (<<>> for NaN)
    selHasParam,        \* the query of the route has a bearing parameter
    selOut,             \* the payload selected, and by which of the two selectors
    accessToken,        \* process.env.NEXT_PUBLIC_MAPILLARY_ACCESS_TOKEN is set
    calls,              \* the fetchStreetView calls made, those under way in full
    emptySince,         \* history: key -> when an upstream lookup last resolved empty
    lastSettled,        \* history: the call that settled in the last step, if one did
    fetches,              \* the fetches the effect started, and where the route is with each
    streetFrames,         \* useState<StreetFrame[]>          ComplaintMap.tsx:324
    currentFrameIndex,    \* useState(0)                      ComplaintMap.tsx:325
    streetImageError,     \* useState<string | null>          ComplaintMap.tsx:327
    isStreetImageLoading, \* useState(false)                  ComplaintMap.tsx:328
    cacheStore,           \* the entries of the route's cache  ComplaintMap.tsx:745
    serverToken,          \* process.env.MAPILLARY_ACCESS_TOKEN is set
    lastCompletion,       \* history: the fetch that settled in the last step, if one did
    lastWrite,            \* history: the fetch the route wrote the cache for in the last step
    queryLat,             \* searchParams.get("lat") of a request
    queryLng,             \* searchParams.get("lng") of a request
    envToken,             \* process.env.MAPILLARY_ACCESS_TOKEN is set, for that request
    answer,               \* the status the request is answered with, and by which handler
    keyed,                \* the two cache-key derivations made last, oldest first
    rendered,             \* the street-image state of the render committed last
    intervals,            \* the intervals of window.setInterval not cleared yet
    timerFor,             \* streetFrames.length when the auto-advance effect last ran
    timersStarted,        \* how many intervals the component has created
    storeRef,             \* let cacheStore, as a reference   ComplaintMap.tsx:745
    objects,              \* the CacheShape objects created, by reference
    cacheFile,            \* .cache/streetview-cache.json
    fileCalls             \* the calls of the file-backed cache, where each is

navVars == <<position, heading, statusLine, memo, lastOp, run>>

cacheVars == <<hasWindow, storageWorks, persistentStorage, memoryCache,
               localStorage, now, ticks, writes, lastCall>>

selVars == <<selImages, selBearing, selHasParam, selOut>>

fetchVars == <<accessToken, calls, emptySince, lastSettled>>

imgVars == <<fetches, streetFrames, currentFrameIndex, streetImageError,
             isStreetImageLoading, cacheStore, serverToken, lastCompletion,
             lastWrite>>

paramVars == <<queryLat, queryLng, envToken, answer>>

keyVars == <<keyed>>

screenVars == <<rendered, intervals, timerFor, timersStarted>>

fileVars == <<storeRef, objects, cacheFile, fileCalls>>

vars == <<navVars, cacheVars, selVars, fetchVars, imgVars, paramVars, keyVars,
          screenVars, fileVars>>

-----------------------------------------------------------------------------
(* Grid constants and tables                                               *)

Headings == {"north", "east", "south", "west"}

headingOrder == <<"north", "east", "south", "west">>

\* Mutation: the south vector points north.
headingVectorsSouthTypo ==
    [north |-> [street |-> 1, avenue |-> 0],
     south |-> [street |-> 1, avenue |-> 0],
     east  |-> [street |-> 0, avenue |-> 1],
     west  |-> [street |-> 0, avenue |-> -1]]

\* Mutation: the west vector points east.
headingVectorsWestTypo ==
    [north |-> [street |-> 1, avenue |-> 0],
     south |-> [street |-> -1, avenue |-> 0],
     east  |-> [street |-> 0, avenue |-> 1],
     west  |-> [street |-> 0, avenue |-> 1]]

headingVectors ==
    [north |-> [street |-> 1, avenue |-> 0],
     south |-> [street |-> -1, avenue |-> 0],
     east  |-> [street |-> 0, avenue |-> 1],
     west  |-> [street |-> 0, avenue |-> -1]]

\* Mutation: east and west are their own opposites.
oppositeHeadingEastWestSame ==
    [north |-> "south", south |-> "north", east |-> "east", west |-> "west"]

oppositeHeading ==
    [north |-> "south", south |-> "north", east |-> "west", west |-> "east"]

GRID_BOUNDS ==
    [minStreet |-> -25, maxStreet |-> 55, minAvenue |-> -6, maxAvenue |-> 6]

ORIGIN_STREET_NUMBER == 45

ORIGIN_AVENUE_NUMBER == 7

AVENUE_LABELS ==
    <<"1st Ave", "2nd Ave", "3rd Ave", "Lexington Ave", "Madison Ave", "6th Ave",
      "7th Ave", "8th Ave", "9th Ave", "10th Ave", "11th Ave", "12th Ave">>

headingDescriptions ==
    [north |-> "north uptown", south |-> "south downtown",
     east  |-> "east toward the river", west |-> "west toward the river"]

headingShort ==
    [north |-> "North", south |-> "South", east |-> "East", west |-> "West"]

headingBearings == [north |-> 0, east |-> 90, south |-> 180, west |-> 270]

Abs(n) == IF n < 0 THEN -n ELSE n

-----------------------------------------------------------------------------
(* Heading rotation                                                        *)

\* headingOrder.indexOf(heading), 0-based as in the source.
indexOfHeading(h) == (CHOOSE i \in 1..Len(headingOrder) : headingOrder[i] = h) - 1

\* Mutation: the turn direction is ignored, every turn is a left turn.
rotateHeadingBackwardOnly(h, turn) ==
    LET index == indexOfHeading(h)
        nextIndex == (index - 1 + Len(headingOrder)) % Len(headingOrder)
    IN  headingOrder[nextIndex + 1]

\* Mutation: the index is clamped to the table instead of wrapping around.
rotateHeadingNoWrap(h, turn) ==
    LET index == indexOfHeading(h)
        offset == IF turn = "right" THEN 1 ELSE -1
        nextIndex == IF index + offset < 0 THEN 0
                     ELSE IF index + offset >= Len(headingOrder)
                     THEN Len(headingOrder) - 1
                     ELSE index + offset
    IN  headingOrder[nextIndex + 1]

rotateHeading(h, turn) ==
    LET index == indexOfHeading(h)
        offset == IF turn = "right" THEN 1 ELSE -1
        nextIndex == (index + offset + Len(headingOrder)) % Len(headingOrder)
    IN  headingOrder[nextIndex + 1]

-----------------------------------------------------------------------------
(* Bounds                                                                  *)

isWithinBounds(candidate) ==
    /\ candidate.street >= GRID_BOUNDS.minStreet
    /\ candidate.street <= GRID_BOUNDS.maxStreet
    /\ candidate.avenue >= GRID_BOUNDS.minAvenue
    /\ candidate.avenue <= GRID_BOUNDS.maxAvenue

Min(a, b) == IF a < b THEN a ELSE b

Max(a, b) == IF a > b THEN a ELSE b

clampToBounds(candidate) ==
    [street |-> Min(Max(candidate.street, GRID_BOUNDS.minStreet), GRID_BOUNDS.maxStreet),
     avenue |-> Min(Max(candidate.avenue, GRID_BOUNDS.minAvenue), GRID_BOUNDS.maxAvenue)]

\* from + headingVectors[direction]
stepFrom(from, direction) ==
    [street |-> from.street + headingVectors[direction].street,
     avenue |-> from.avenue + headingVectors[direction].avenue]

\* Mutation: the handlers do not look at the availability of the move.
canMoveUnguarded(from, direction) == TRUE

canMove(from, direction) == isWithinBounds(stepFrom(from, direction))

-----------------------------------------------------------------------------
(* Labels                                                                  *)

ordinalSuffix(value) ==
    LET absValue == Abs(value)
        lastDigit == absValue % 10
        lastTwoDigits == absValue % 100
    IN  IF lastTwoDigits >= 11 /\ lastTwoDigits <= 13 THEN ToString(value) \o "th"
        ELSE IF lastDigit = 1 THEN ToString(value) \o "st"
        ELSE IF lastDigit = 2 THEN ToString(value) \o "nd"
        ELSE IF lastDigit = 3 THEN ToString(value) \o "rd"
        ELSE ToString(value) \o "th"

formatStreetLabel(p) ==
    LET streetNumber == ORIGIN_STREET_NUMBER + p.street
        avenueNumber == ORIGIN_AVENUE_NUMBER + p.avenue
        eastWestPrefix == IF avenueNumber >= 5 THEN "W" ELSE "E"
    IN  eastWestPrefix \o " " \o ordinalSuffix(streetNumber) \o " St"

formatAvenueLabel(p) ==
    LET avenueNumber == ORIGIN_AVENUE_NUMBER + p.avenue
    IN  IF avenueNumber \in DOMAIN AVENUE_LABELS
        THEN AVENUE_LABELS[avenueNumber]
        ELSE ordinalSuffix(avenueNumber) \o " Ave"

describeIntersection(p) ==
    [street |-> formatStreetLabel(p), avenue |-> formatAvenueLabel(p)]

-----------------------------------------------------------------------------
(* Grid <-> lat/lng.                                                       *)
(*                                                                         *)
(* The source evaluates the spherical destination-point and haversine      *)
(* formulas in doubles.  Here they are evaluated in fixed point for the    *)
(* arguments the component passes: bearings 0, 90, 180 and 270, distances  *)
(* of at most a few kilometres, latitudes within 0.05 degree of the origin *)
(* and point pairs that differ in one coordinate only.  For those          *)
(*   bearing 0/180 : newLat = lat +- d/R, newLng = lng                     *)
(*   bearing 90/270: newLat = asin(sin lat * cos(d/R))                     *)
(*                          = lat - tan(lat) * (d/R)^2 / 2 + O((d/R)^4)    *)
(*                   newLng = lng +- atan2(tan(d/R), cos lat)              *)
(*                          = lng +- (d/R) / cos(lat) + O((d/R)^3)         *)
(*   haversine, same lng: R * |dLat|;  same lat: R * cos(lat) * |dLng|     *)
(* so the eastward displacement is laid out with the cosine of the         *)
(* latitude reached after the street displacement and measured back with   *)
(* the cosine of the origin latitude, as in the source.  Evaluated at all  *)
(* 82 x 14 grid positions from -25..56 x -6..7 the fixed-point values stay *)
(* within 3 E7 units (3.4 cm) of the coordinates and within 3 cm of the    *)
(* distances the double-precision code yields.                             *)

EARTH_RADIUS_METERS == 6378137

INITIAL_LAT_LNG == <<407580000, -739855000>>

STREET_BLOCK_METERS == 80

AVENUE_BLOCK_METERS == 274

\* E7 units of latitude per kilometre: 1e10 * (180 / pi) / EARTH_RADIUS_METERS.
LAT_E7_PER_KM == 89832

\* E7 units of longitude per kilometre at the origin latitude:
\* LAT_E7_PER_KM / cos(40.758 deg).
LNG_E7_PER_KM_AT_ORIGIN == 118594

\* d/dlat of the above, per 1e7 E7 units (one degree) of latitude:
\* LNG_E7_PER_KM_AT_ORIGIN * tan(40.758 deg) * pi / 180.
LNG_E7_PER_KM_SLOPE == 1784

\* tan(40.758 deg) * (180 / pi) / (2 * EARTH_RADIUS_METERS), in E7 units per
\* 1e8 square metres: the latitude lost by a great circle that starts due
\* east or west.
LAT_DROP_E7_PER_1E8_M2 == 607

\* (180 / pi) / (R * cos(lat)), in E7 units per kilometre.
lngE7PerKm(lat) ==
    LNG_E7_PER_KM_AT_ORIGIN
        + ((lat - INITIAL_LAT_LNG[1]) * LNG_E7_PER_KM_SLOPE) \div 10000000

\* n / d quantised to the nearest fixed-point unit (n >= 0, d > 0).
nearest(n, d) == (2 * n + d) \div (2 * d)

\* Mutation: Math.floor in place of Math.round.
mathFloorDiv(n, d) == n \div d

\* Math.round(n / d) for n >= 0, d > 0: floor(n / d + 0.5).
mathRoundDiv(n, d) == (2 * n + d) \div (2 * d)

moveByMeters(point, distanceInMeters, bearingDeg) ==
    LET lat == point[1]
        lng == point[2]
        dLat == nearest(distanceInMeters * LAT_E7_PER_KM, 1000)
        dLng == nearest(distanceInMeters * lngE7PerKm(lat), 1000)
        latDrop == nearest(((distanceInMeters * distanceInMeters) \div 10)
                           * LAT_DROP_E7_PER_1E8_M2, 10000000)
    IN  IF distanceInMeters = 0 THEN point
        ELSE CASE bearingDeg = 0   -> <<lat + dLat, lng>>
               [] bearingDeg = 180 -> <<lat - dLat, lng>>
               [] bearingDeg = 90  -> <<lat - latDrop, lng + dLng>>
               [] bearingDeg = 270 -> <<lat - latDrop, lng - dLng>>

\* Centimetres between two points that share a coordinate.
distanceBetween(a, b) ==
    LET e7PerKm == IF a[2] = b[2] THEN LAT_E7_PER_KM ELSE lngE7PerKm(a[1])
        delta == IF a[2] = b[2] THEN Abs(b[1] - a[1]) ELSE Abs(b[2] - a[2])
        metres == (delta * 1000) \div e7PerKm
        rest == (delta * 1000) % e7PerKm
    IN  metres * 100 + (rest * 100) \div e7PerKm

computeLatLngFromGrid(p) ==
    LET afterStreet ==
            IF p.street # 0
            THEN moveByMeters(INITIAL_LAT_LNG, Abs(p.street) * STREET_BLOCK_METERS,
                              IF p.street > 0 THEN 0 ELSE 180)
            ELSE INITIAL_LAT_LNG
    IN  IF p.avenue # 0
        THEN moveByMeters(afterStreet, Abs(p.avenue) * AVENUE_BLOCK_METERS,
                          IF p.avenue > 0 THEN 90 ELSE 270)
        ELSE afterStreet

\* GridPosition | null, as a sequence of at most one element.
computeGridFromLatLng(point) ==
    LET lat == point[1]
        lng == point[2]
        latDistance == distanceBetween(<<lat, INITIAL_LAT_LNG[2]>>, INITIAL_LAT_LNG)
        lngDistance == distanceBetween(<<INITIAL_LAT_LNG[1], lng>>, INITIAL_LAT_LNG)
        streetBlocks == mathRoundDiv(latDistance, STREET_BLOCK_METERS * 100)
                            * (IF lat >= INITIAL_LAT_LNG[1] THEN 1 ELSE -1)
        avenueBlocks == mathRoundDiv(lngDistance, AVENUE_BLOCK_METERS * 100)
                            * (IF lng >= INITIAL_LAT_LNG[2] THEN 1 ELSE -1)
    IN  IF \/ streetBlocks < GRID_BOUNDS.minStreet
           \/ streetBlocks > GRID_BOUNDS.maxStreet
           \/ avenueBlocks < GRID_BOUNDS.minAvenue
           \/ avenueBlocks > GRID_BOUNDS.maxAvenue
        THEN <<>>
        ELSE <<[street |-> streetBlocks, avenue |-> avenueBlocks]>>

\* rawIntersectionLatLng and the { displayGrid, intersectionLatLng } memo of a
\* render with the given position; snappedGrid is the memo's local.
renderMemo(p) ==
    LET rawIntersectionLatLng == computeLatLngFromGrid(p)
        snappedGrid == computeGridFromLatLng(rawIntersectionLatLng)
    IN  [rawIntersectionLatLng |-> rawIntersectionLatLng,
         snappedGrid |-> snappedGrid,
         displayGrid |-> IF snappedGrid = <<>> THEN p ELSE snappedGrid[1],
         intersectionLatLng |->
             IF snappedGrid = <<>> THEN rawIntersectionLatLng
             ELSE computeLatLngFromGrid(snappedGrid[1])]

-----------------------------------------------------------------------------
(* The random source of the initial position                               *)

\* Uint32 values as two 16-bit limbs, least and greatest included.
UInt32Samples ==
    {[hi |-> 0, lo |-> 0], [hi |-> 0, lo |-> 1], [hi |-> 808, lo |-> 6175],
     [hi |-> 808, lo |-> 6176], [hi |-> 21845, lo |-> 21845],
     [hi |-> 32768, lo |-> 0], [hi |-> 65535, lo |-> 65534],
     [hi |-> 65535, lo |-> 65535]}

\* Math.random() values num / den, 0 <= num < den.
MathRandomSamples ==
    {<<0, 1>>, <<1, 81>>, <<1, 2>>, <<80, 81>>, <<12, 13>>,
     <<16777215, 16777216>>}

\* Math.floor((seed / 0xffffffff) * n) for a Uint32 seed and 0 < n < 2^15:
\* the greatest k with k * (2^32 - 1) <= seed * n, compared limb by limb.
\* (The double quotient and product round to the exact floor for n = 81 and
\* n = 13 at every seed.)
floorSeedTimes(seed, n) ==
    LET atLeast(k) == k * 65536 <= seed.hi * n + (seed.lo * n + k) \div 65536
    IN  CHOOSE k \in 0..n : atLeast(k) /\ ~atLeast(k + 1)

\* Math.floor(Math.random() * n)
floorRandomTimes(r, n) == (r[1] * n) \div r[2]

streetCount == GRID_BOUNDS.maxStreet - GRID_BOUNDS.minStreet + 1

avenueCount == GRID_BOUNDS.maxAvenue - GRID_BOUNDS.minAvenue + 1

\* The useState initialiser of position with window.crypto.getRandomValues.
initialPositionFromSeed(seedBuffer) ==
    [street |-> floorSeedTimes(seedBuffer[1], streetCount) + GRID_BOUNDS.minStreet,
     avenue |-> floorSeedTimes(seedBuffer[2], avenueCount) + GRID_BOUNDS.minAvenue]

\* The same initialiser falling back to Math.random().
initialPositionFromMathRandom(randomStreet, randomAvenue) ==
    [street |-> floorRandomTimes(randomStreet, streetCount) + GRID_BOUNDS.minStreet,
     avenue |-> floorRandomTimes(randomAvenue, avenueCount) + GRID_BOUNDS.minAvenue]

-----------------------------------------------------------------------------
(* Navigation                                                              *)

INITIAL_STATUS == "You're posted up in Times Square. Arrow keys to explore."

rollingStatus(movementHeading, candidate) ==
    "Rolling " \o headingDescriptions[movementHeading] \o " toward "
        \o describeIntersection(candidate).street \o " and "
        \o describeIntersection(candidate).avenue \o "."

cantHeadStatus(h) ==
    "Can't head toward " \o headingShort[h] \o " -- that block is closed off."

cantBackStatus(reverseHeading) ==
    "Can't back toward " \o headingShort[reverseHeading]
        \o " -- construction behind you."

facingStatus(nextHeading) ==
    "Facing " \o headingShort[nextHeading]
        \o " -- that block is closed off. Try another way or head back."

\* History kept for the properties: the handler that ran last and the one
\* before it, each with the state it ran in; and, while identical turns follow
\* one another, their number and the state in which the first of them ran (a
\* run is restarted after Len(headingOrder) turns).
recordOp(op) ==
    /\ lastOp' = [op |-> op, position |-> position, heading |-> heading,
                  before |-> [op |-> lastOp.op, position |-> lastOp.position,
                              heading |-> lastOp.heading]]
    /\ run' = IF op \notin {"turnLeft", "turnRight"}
              THEN [count |-> 0, position |-> position, heading |-> heading]
              ELSE IF lastOp.op = op /\ run.count < Len(headingOrder)
              THEN [run EXCEPT !.count = @ + 1]
              ELSE [count |-> 1, position |-> position, heading |-> heading]

\* The re-render that follows every handler.
render == memo' = renderMemo(position')

NavInit ==
    /\ \/ \E s \in UInt32Samples, a \in UInt32Samples :
              position = initialPositionFromSeed(<<s, a>>)
       \/ \E s \in MathRandomSamples, a \in MathRandomSamples :
              position = initialPositionFromMathRandom(s, a)
    /\ heading = "north"
    /\ statusLine = INITIAL_STATUS
    /\ memo = renderMemo(position)
    /\ lastOp = [op |-> "init", position |-> position, heading |-> heading,
                 before |-> [op |-> "init", position |-> position,
                             heading |-> heading]]
    /\ run = [count |-> 0, position |-> position, heading |-> heading]

\* Mutation: the updater moves without setting the status line.
moveOneBlockNoStatus(movementHeading) ==
    LET candidate == stepFrom(position, movementHeading)
    IN  IF ~isWithinBounds(candidate)
        THEN UNCHANGED <<position, statusLine>>
        ELSE /\ UNCHANGED statusLine
             /\ position' = candidate

moveOneBlock(movementHeading) ==
    LET candidate == stepFrom(position, movementHeading)
    IN  IF ~isWithinBounds(candidate)
        THEN UNCHANGED <<position, statusLine>>
        ELSE /\ statusLine' = rollingStatus(movementHeading, candidate)
             /\ position' = candidate

handleMoveForward ==
    /\ IF ~canMove(position, heading)
       THEN /\ statusLine' = cantHeadStatus(heading)
            /\ UNCHANGED position
       ELSE moveOneBlock(heading)
    /\ UNCHANGED heading
    /\ render
    /\ recordOp("moveForward")

handleMoveBackward ==
    /\ LET reverseHeading == oppositeHeading[heading]
       IN  IF ~canMove(position, reverseHeading)
           THEN /\ statusLine' = cantBackStatus(reverseHeading)
                /\ UNCHANGED position
           ELSE moveOneBlock(reverseHeading)
    /\ UNCHANGED heading
    /\ render
    /\ recordOp("moveBackward")

\* Mutation: the handler returns after setHeading; the advance is left out.
handleTurnHeadingOnly(direction) ==
    /\ LET nextHeading == rotateHeading(heading, direction)
       IN  /\ heading' = nextHeading
           /\ statusLine' = facingStatus(nextHeading)
           /\ UNCHANGED position
    /\ render
    /\ recordOp(IF direction = "left" THEN "turnLeft" ELSE "turnRight")

handleTurn(direction) ==
    /\ LET nextHeading == rotateHeading(heading, direction)
       IN  /\ heading' = nextHeading
           /\ IF ~canMove(position, nextHeading)
              THEN /\ statusLine' = facingStatus(nextHeading)
                   /\ UNCHANGED position
              ELSE moveOneBlock(nextHeading)
    /\ render
    /\ recordOp(IF direction = "left" THEN "turnLeft" ELSE "turnRight")



-----------------------------------------------------------------------------
(* The browser street-view cache (memory tier and localStorage tier).      *)
(* Bearings are in hundredths of a degree; a number that may be NaN is     *)
(* <<n>> or <<>>.  An absent Map entry, a null and a missing localStorage  *)
(* item are the empty sequence, a present one is a sequence of one element.*)

CACHE_VERSION == 2

CACHE_TTL_MS == 1000 * 60 * 60 * 24 * 7

CACHE_KEY_PREFIX == "streetview-cache:v" \o ToString(CACHE_VERSION) \o ":"

\* a % n of JavaScript for n > 0: the sign of the dividend.
jsRemainder(a, n) == IF a >= 0 THEN a % n ELSE -((-a) % n)

\* Number.isFinite(x) for a number given as <<n>>, NaN given as <<>>.
NumberIsFinite(x) == x # <<>>

normalizeBearing(bearing) ==
    IF ~NumberIsFinite(bearing) THEN 0
    ELSE LET normalized == jsRemainder(bearing[1], 360 * 100)
         IN  IF normalized < 0 THEN normalized + 360 * 100 ELSE normalized

RECURSIVE decimalDigits(_, _)
\* The last k decimal digits of n >= 0, with leading zeros.
decimalDigits(n, k) ==
    IF k = 0 THEN "" ELSE decimalDigits(n \div 10, k - 1) \o ToString(n % 10)

\* x.toFixed(digits) for x given as an integer count of units of which
\* 10^(digits) * dropped make one: the magnitude is rounded half up to
\* `digits` decimals after dropping `dropped` units.
toFixed(x, dropped, digits) ==
    LET magnitude == (Abs(x) + dropped \div 2) \div dropped
    IN  (IF x < 0 THEN "-" ELSE "")
            \o ToString(magnitude \div (10 ^ digits)) \o "."
            \o decimalDigits(magnitude % (10 ^ digits), digits)

getCacheKey(lat, lng, bearing) ==
    toFixed(lat, 10, 6) \o "|" \o toFixed(lng, 10, 6) \o "|"
        \o toFixed(normalizeBearing(bearing), 10, 1)

\* Mutation: an entry is dropped as soon as its age reaches the TTL.
isExpiredAtTtl(entry) == now - entry.cachedAt >= CACHE_TTL_MS

isExpired(entry) == now - entry.cachedAt > CACHE_TTL_MS

\* A stored string is given by what the code can tell of it: whether it is
\* the empty string, and what JSON.parse makes of it (json = <<>> when
\* JSON.parse throws).  A parsed value is given by whether it is a non-null
\* object and by its three properties: version as <<n>> when it is a number,
\* cachedAt as <<n>> when typeof gives "number", payload as <<p>> when it is
\* a non-null object, each <<>> otherwise.
jsonOf(entry) ==
    [object |-> TRUE, version |-> <<entry.version>>,
     cachedAt |-> <<entry.cachedAt>>, payload |-> <<entry.payload>>]

JSONstringify(entry) == [empty |-> FALSE, json |-> <<jsonOf(entry)>>]

JSONparse(raw) == raw.json[1]

\* parsed as CacheEntry, for a parsed value that passed the tests.
asCacheEntry(parsed) ==
    [payload |-> parsed.payload[1], cachedAt |-> parsed.cachedAt[1],
     version |-> parsed.version[1]]

\* The tests of loadFromStorage on a parsed value.
isCacheEntry(parsed) ==
    ~(\/ ~parsed.object
      \/ parsed.version # <<CACHE_VERSION>>
      \/ parsed.cachedAt = <<>>
      \/ parsed.payload = <<>>)

\* The entry a stored string written by saveToStorage holds.
storedEntry(raw) == asCacheEntry(JSONparse(raw))

\* The (lat, lng, bearing) triples the cache is called with: the origin
\* intersection facing north and facing east.
CacheRequests ==
    {[lat |-> INITIAL_LAT_LNG[1], lng |-> INITIAL_LAT_LNG[2], bearing |-> <<b>>] :
        b \in {headingBearings.north * 100, headingBearings.east * 100}}

cacheKeyOf(req) == CACHE_KEY_PREFIX \o getCacheKey(req.lat, req.lng, req.bearing)

CacheKeys == {cacheKeyOf(req) : req \in CacheRequests}

EmptyPayload == [images |-> <<>>, preferredIndex |-> 0]

PayloadSamples ==
    {EmptyPayload,
     [images |-> <<[imageUrl |-> "https://images.example/a-2048.jpg",
                    capturedAt |-> <<"2023-05-01T12:00:00.000Z">>,
                    compassAngle |-> <<10 * 100>>, id |-> <<"a">>],
                   [imageUrl |-> "https://images.example/b-1024.jpg",
                    capturedAt |-> <<"2023-05-01T12:00:05.000Z">>,
                    compassAngle |-> <<350 * 100>>, id |-> <<"b">>]>>,
      preferredIndex |-> 1]}

\* Date.now() advances by one of these between calls.
ClockSteps == {1, CACHE_TTL_MS}

MaxTicks == 2

MaxWrites == 2

\* getPersistentStorage(): the memoised handle after the call.
getPersistentStorage ==
    IF persistentStorage # "undefined" THEN persistentStorage
    ELSE IF ~hasWindow THEN "null"
    ELSE IF storageWorks THEN "localStorage"
    ELSE "null"

\* Mutation: the version of a stored entry is not looked at.
loadFromStorageAnyVersion(key) ==
    IF getPersistentStorage = "null" \/ localStorage[key] = <<>>
    THEN [entry |-> <<>>, removed |-> FALSE]
    ELSE LET raw == localStorage[key][1]
         IN  IF raw.empty
             THEN [entry |-> <<>>, removed |-> FALSE]
             ELSE IF raw.json = <<>>
             THEN [entry |-> <<>>, removed |-> TRUE]
             ELSE IF \/ ~JSONparse(raw).object
                     \/ JSONparse(raw).version = <<>>
                     \/ JSONparse(raw).cachedAt = <<>>
                     \/ JSONparse(raw).payload = <<>>
             THEN [entry |-> <<>>, removed |-> TRUE]
             ELSE [entry |-> <<asCacheEntry(JSONparse(raw))>>, removed |-> FALSE]

\* Mutation: an entry read from storage is stamped with the time of the read.
loadFromStorageRestamped(key) ==
    IF getPersistentStorage = "null" \/ localStorage[key] = <<>>
    THEN [entry |-> <<>>, removed |-> FALSE]
    ELSE LET raw == localStorage[key][1]
         IN  IF raw.empty
             THEN [entry |-> <<>>, removed |-> FALSE]
             ELSE IF raw.json = <<>>
             THEN [entry |-> <<>>, removed |-> TRUE]
             ELSE IF ~isCacheEntry(JSONparse(raw))
             THEN [entry |-> <<>>, removed |-> TRUE]
             ELSE [entry |-> <<[asCacheEntry(JSONparse(raw)) EXCEPT !.cachedAt = now]>>,
                   removed |-> FALSE]

\* loadFromStorage(key): the entry returned, and whether the item is removed.
loadFromStorage(key) ==
    IF getPersistentStorage = "null" \/ localStorage[key] = <<>>
    THEN [entry |-> <<>>, removed |-> FALSE]
    ELSE LET raw == localStorage[key][1]
         IN  IF raw.empty
             THEN [entry |-> <<>>, removed |-> FALSE]
             ELSE IF raw.json = <<>>
             THEN [entry |-> <<>>, removed |-> TRUE]
             ELSE IF ~isCacheEntry(JSONparse(raw))
             THEN [entry |-> <<>>, removed |-> TRUE]
             ELSE [entry |-> <<asCacheEntry(JSONparse(raw))>>, removed |-> FALSE]

\* saveToStorage(key, entry): localStorage after the call; setItem may throw
\* (quota exceeded), which is swallowed.
saveToStorage(key, entry, setItemThrows) ==
    IF getPersistentStorage = "null" \/ setItemThrows
    THEN localStorage
    ELSE [localStorage EXCEPT ![key] = <<JSONstringify(entry)>>]

\* Mutation: nothing is removed from storage.
removeFromStorageNothing(key) == localStorage

\* removeFromStorage(key): localStorage after the call.
removeFromStorage(key) ==
    IF getPersistentStorage = "null"
    THEN localStorage
    ELSE [localStorage EXCEPT ![key] = <<>>]

\* History: the last call made since the clock last moved, the entry the
\* tiers held for its key when it began (tier 1 first), the payload it
\* returned and the entry that payload came from.
\* For a write, `served` is the entry it was called to store.  tier1, tier2
\* and handle are memoryCache, localStorage and persistentStorage as they
\* were when the call began.
noCall == [op |-> "none", key |-> "", found |-> <<>>, returned |-> <<>>,
           served |-> <<>>, tier1 |-> [k \in CacheKeys |-> <<>>],
           tier2 |-> [k \in CacheKeys |-> <<>>], handle |-> "undefined",
           threw |-> FALSE]

recordCall(op, key, found, returned, served) ==
    lastCall' = [op |-> op, key |-> key, found |-> found,
                 returned |-> returned, served |-> served,
                 tier1 |-> memoryCache, tier2 |-> localStorage,
                 handle |-> persistentStorage, threw |-> FALSE]

\* The call ended by throwing to its caller.
recordThrow(op, key, found) ==
    lastCall' = [op |-> op, key |-> key, found |-> found,
                 returned |-> <<>>, served |-> <<>>,
                 tier1 |-> memoryCache, tier2 |-> localStorage,
                 handle |-> persistentStorage, threw |-> TRUE]

heldFor(key) ==
    IF memoryCache[key] # <<>> THEN memoryCache[key]
    ELSE IF /\ getPersistentStorage = "localStorage"
            /\ localStorage[key] # <<>>
            /\ localStorage[key][1].json # <<>>
            /\ isCacheEntry(JSONparse(localStorage[key][1]))
    THEN <<storedEntry(localStorage[key][1])>>
    ELSE <<>>

getCachedStreetView(req) ==
    LET cacheKey == cacheKeyOf(req)
        inMemory == memoryCache[cacheKey]
        persisted == loadFromStorage(cacheKey)
    IN  /\ UNCHANGED <<hasWindow, storageWorks, now, ticks, writes>>
        /\ IF ~hasWindow
           THEN /\ UNCHANGED <<persistentStorage, memoryCache, localStorage>>
                /\ recordCall("get", cacheKey, <<>>, <<>>, <<>>)
           ELSE IF inMemory # <<>>
           THEN IF isExpired(inMemory[1])
                THEN /\ memoryCache' = [memoryCache EXCEPT ![cacheKey] = <<>>]
                     /\ localStorage' = removeFromStorage(cacheKey)
                     /\ persistentStorage' = getPersistentStorage
                     /\ recordCall("get", cacheKey, heldFor(cacheKey), <<>>, <<>>)
                ELSE /\ UNCHANGED <<persistentStorage, memoryCache, localStorage>>
                     /\ recordCall("get", cacheKey, heldFor(cacheKey),
                                   <<inMemory[1].payload>>, inMemory)
           ELSE /\ persistentStorage' = getPersistentStorage
                /\ IF persisted.entry = <<>>
                   THEN /\ localStorage' = IF persisted.removed
                                           THEN removeFromStorage(cacheKey)
                                           ELSE localStorage
                        /\ UNCHANGED memoryCache
                        /\ recordCall("get", cacheKey, heldFor(cacheKey), <<>>, <<>>)
                   ELSE IF isExpired(persisted.entry[1])
                   THEN /\ localStorage' = removeFromStorage(cacheKey)
                        /\ UNCHANGED memoryCache
                        /\ recordCall("get", cacheKey, heldFor(cacheKey), <<>>, <<>>)
                   ELSE /\ memoryCache' =
                               [memoryCache EXCEPT ![cacheKey] = persisted.entry]
                        /\ UNCHANGED localStorage
                        /\ recordCall("get", cacheKey, heldFor(cacheKey),
                                      <<persisted.entry[1].payload>>, persisted.entry)

\* Mutation: the entry is put into localStorage first, so that a setItem
\* that throws leaves the in-memory map as it was.
setCachedStreetViewStorageFirst(req, payload, setItemThrows) ==
    LET cacheKey == cacheKeyOf(req)
        entry == [payload |-> payload, cachedAt |-> now, version |-> CACHE_VERSION]
    IN  /\ writes' = writes + 1
        /\ UNCHANGED <<hasWindow, storageWorks, now, ticks>>
        /\ IF ~hasWindow
           THEN /\ UNCHANGED <<persistentStorage, memoryCache, localStorage>>
                /\ recordCall("set", cacheKey, <<>>, <<>>, <<entry>>)
           ELSE /\ memoryCache' = IF getPersistentStorage = "localStorage" /\ setItemThrows
                                  THEN memoryCache
                                  ELSE [memoryCache EXCEPT ![cacheKey] = <<entry>>]
                /\ localStorage' = saveToStorage(cacheKey, entry, setItemThrows)
                /\ persistentStorage' = getPersistentStorage
                /\ recordCall("set", cacheKey, heldFor(cacheKey), <<>>, <<entry>>)

setCachedStreetView(req, payload, setItemThrows) ==
    LET cacheKey == cacheKeyOf(req)
        entry == [payload |-> payload, cachedAt |-> now, version |-> CACHE_VERSION]
    IN  /\ writes' = writes + 1
        /\ UNCHANGED <<hasWindow, storageWorks, now, ticks>>
        /\ IF ~hasWindow
           THEN /\ UNCHANGED <<persistentStorage, memoryCache, localStorage>>
                /\ recordCall("set", cacheKey, <<>>, <<>>, <<entry>>)
           ELSE /\ memoryCache' = [memoryCache EXCEPT ![cacheKey] = <<entry>>]
                /\ localStorage' = saveToStorage(cacheKey, entry, setItemThrows)
                /\ persistentStorage' = getPersistentStorage
                /\ recordCall("set", cacheKey, heldFor(cacheKey), <<>>, <<entry>>)

\* Another session (a tab of the same origin) writes an entry: the same
\* setCachedStreetView, run against its own memory tier and the shared
\* localStorage.  Of that session only the localStorage item is seen here.
otherSessionWrites(req, payload) ==
    LET cacheKey == cacheKeyOf(req)
        entry == [payload |-> payload, cachedAt |-> now, version |-> CACHE_VERSION]
    IN  /\ hasWindow
        /\ storageWorks
        /\ writes' = writes + 1
        /\ localStorage' = [localStorage EXCEPT ![cacheKey] = <<JSONstringify(entry)>>]
        /\ lastCall' = noCall
        /\ UNCHANGED <<hasWindow, storageWorks, persistentStorage, memoryCache,
                       now, ticks>>

\* Date.now() moves on (kept within three TTLs, inside 32 bits).
\* loadFromStorage on a storage whose getItem or removeItem may throw: the
\* catch block calls storage.removeItem(key) outside any try, and so does not
\* catch what that call throws; removeItem in the try block is caught and
\* tried again in the catch block.  threw: the exception leaves the function.
loadFromStorageOn(key, getItemThrows, removeItemThrows) ==
    LET caught == [entry |-> <<>>, removed |-> ~removeItemThrows,
                   threw |-> removeItemThrows]
    IN  IF getPersistentStorage = "null"
        THEN [entry |-> <<>>, removed |-> FALSE, threw |-> FALSE]
        ELSE IF getItemThrows
        THEN caught
        ELSE IF localStorage[key] = <<>>
        THEN [entry |-> <<>>, removed |-> FALSE, threw |-> FALSE]
        ELSE LET raw == localStorage[key][1]
             IN  IF raw.empty
                 THEN [entry |-> <<>>, removed |-> FALSE, threw |-> FALSE]
                 ELSE IF raw.json = <<>>
                 THEN caught
                 ELSE IF ~isCacheEntry(JSONparse(raw))
                 THEN caught
                 ELSE [entry |-> <<asCacheEntry(JSONparse(raw))>>,
                       removed |-> FALSE, threw |-> FALSE]

\* removeFromStorage on such a storage: what removeItem throws is caught.
removeFromStorageOn(key, removeItemThrows) ==
    IF removeItemThrows THEN localStorage ELSE removeFromStorage(key)

\* getCachedStreetView on such a storage.
getCachedStreetViewOn(req, getItemThrows, removeItemThrows) ==
    LET cacheKey == cacheKeyOf(req)
        inMemory == memoryCache[cacheKey]
        persisted == loadFromStorageOn(cacheKey, getItemThrows, removeItemThrows)
    IN  /\ UNCHANGED <<hasWindow, storageWorks, now, ticks, writes>>
        /\ IF ~hasWindow
           THEN /\ UNCHANGED <<persistentStorage, memoryCache, localStorage>>
                /\ recordCall("get", cacheKey, <<>>, <<>>, <<>>)
           ELSE IF inMemory # <<>>
           THEN IF isExpired(inMemory[1])
                THEN /\ memoryCache' = [memoryCache EXCEPT ![cacheKey] = <<>>]
                     /\ localStorage' = removeFromStorageOn(cacheKey, removeItemThrows)
                     /\ persistentStorage' = getPersistentStorage
                     /\ recordCall("get", cacheKey, heldFor(cacheKey), <<>>, <<>>)
                ELSE /\ UNCHANGED <<persistentStorage, memoryCache, localStorage>>
                     /\ recordCall("get", cacheKey, heldFor(cacheKey),
                                   <<inMemory[1].payload>>, inMemory)
           ELSE /\ persistentStorage' = getPersistentStorage
                /\ IF persisted.threw
                   THEN /\ UNCHANGED <<memoryCache, localStorage>>
                        /\ recordThrow("get", cacheKey, heldFor(cacheKey))
                   ELSE IF persisted.entry = <<>>
                   THEN /\ localStorage' = IF persisted.removed
                                           THEN removeFromStorage(cacheKey)
                                           ELSE localStorage
                        /\ UNCHANGED memoryCache
                        /\ recordCall("get", cacheKey, heldFor(cacheKey), <<>>, <<>>)
                   ELSE IF isExpired(persisted.entry[1])
                   THEN /\ localStorage' = removeFromStorageOn(cacheKey, removeItemThrows)
                        /\ UNCHANGED memoryCache
                        /\ recordCall("get", cacheKey, heldFor(cacheKey), <<>>, <<>>)
                   ELSE /\ memoryCache' =
                               [memoryCache EXCEPT ![cacheKey] = persisted.entry]
                        /\ UNCHANGED localStorage
                        /\ recordCall("get", cacheKey, heldFor(cacheKey),
                                      <<persisted.entry[1].payload>>, persisted.entry)

ClockAdvance(step) ==
    /\ ticks < MaxTicks
    /\ now <= 3 * CACHE_TTL_MS - step
    /\ now' = now + step
    /\ ticks' = ticks + 1
    /\ lastCall' = noCall
    /\ UNCHANGED <<hasWindow, storageWorks, persistentStorage, memoryCache,
                   localStorage, writes>>

\* The page is loaded again: the module is evaluated afresh, localStorage stays.
PageLoad ==
    /\ hasWindow
    /\ memoryCache' = [k \in CacheKeys |-> <<>>]
    /\ persistentStorage' = "undefined"
    /\ lastCall' = noCall
    /\ UNCHANGED <<hasWindow, storageWorks, localStorage, now, ticks, writes>>

CacheInit ==
    /\ hasWindow \in BOOLEAN
    /\ storageWorks \in BOOLEAN
    /\ hasWindow \/ ~storageWorks
    /\ persistentStorage = "undefined"
    /\ memoryCache = [k \in CacheKeys |-> <<>>]
    /\ localStorage = [k \in CacheKeys |-> <<>>]
    /\ now = 0
    /\ ticks = 0
    /\ writes = 0
    /\ lastCall = noCall

\* What a page can find under a cache key when it is loaded: nothing, or a
\* string some earlier code of the origin left there.  In source order of
\* the tests of loadFromStorage: the empty string, text that is no JSON,
\* the JSON text 1, an entry of cache version 1, an entry whose cachedAt is
\* a string, an entry whose payload is null, and an entry saveToStorage
\* wrote at time 0.
LeftAtZero(payload) ==
    [payload |-> payload, cachedAt |-> 0, version |-> CACHE_VERSION]

StoredItemSamples ==
    LET written == jsonOf(LeftAtZero(EmptyPayload))
    IN  {<<>>,
         <<[empty |-> TRUE, json |-> <<>>]>>,
         <<[empty |-> FALSE, json |-> <<>>]>>,
         <<[empty |-> FALSE,
            json |-> <<[object |-> FALSE, version |-> <<>>, cachedAt |-> <<>>,
                        payload |-> <<>>]>>]>>,
         <<[empty |-> FALSE,
            json |-> <<[written EXCEPT !.version = <<CACHE_VERSION - 1>>]>>]>>,
         <<[empty |-> FALSE, json |-> <<[written EXCEPT !.cachedAt = <<>>]>>]>>,
         <<[empty |-> FALSE, json |-> <<[written EXCEPT !.payload = <<>>]>>]>>}
        \cup {<<JSONstringify(LeftAtZero(payload))>> : payload \in PayloadSamples}

\* A page in a browser whose localStorage passes the probe, loaded at time 0.
StorageInit ==
    /\ hasWindow = TRUE
    /\ storageWorks = TRUE
    /\ persistentStorage = "undefined"
    /\ memoryCache = [k \in CacheKeys |-> <<>>]
    /\ localStorage \in [CacheKeys -> StoredItemSamples]
    /\ now = 0
    /\ ticks = 0
    /\ writes = 0
    /\ lastCall = noCall

-----------------------------------------------------------------------------
(* The frame selector: the part of fetchStreetView (part_000) and of the   *)
(* /api/streetview route that turns the upstream response into a payload.  *)
(* Angles are in hundredths of a degree.  A JSON field that is missing or  *)
(* of another type is <<>>, a present one <<v>>; Number.POSITIVE_INFINITY  *)
(* is <<>> where a difference is expected, and so is a null bearing.       *)

\* Mutation: the difference is not folded back into [0, 180].
normalizeBearingDifferenceUnfolded(a, b) == Abs(a - b) % (360 * 100)

normalizeBearingDifference(a, b) ==
    LET diff == Abs(a - b) % (360 * 100)
    IN  IF diff > 180 * 100 THEN 360 * 100 - diff ELSE diff

\* The thumb of the loop body: the first of the three urls that is a string.
thumbOf(image) ==
    IF image.thumb_2048_url # <<>> THEN image.thumb_2048_url
    ELSE IF image.thumb_1024_url # <<>> THEN image.thumb_1024_url
    ELSE IF image.thumb_512_url # <<>> THEN image.thumb_512_url
    ELSE <<>>

\* !thumb: null or the empty string.
thumbIsFalsy(thumb) == thumb = <<>> \/ thumb[1] = ""

\* The diff of a candidate, <<>> for Number.POSITIVE_INFINITY.
diffOf(image, normalizedBearing) ==
    IF normalizedBearing # <<>> /\ image.compass_angle # <<>>
    THEN <<normalizeBearingDifference(image.compass_angle[1], normalizedBearing[1])>>
    ELSE <<>>

frameOf(image) ==
    [imageUrl |-> thumbOf(image)[1],
     capturedAt |-> image.captured_at,
     compassAngle |-> image.compass_angle,
     id |-> image.id]

\* Mutation: the images without a thumbnail stay among the candidates.
candidatesKeepingAll(images, normalizedBearing) ==
    [i \in 1..Len(images) |->
        [frame |-> [imageUrl |-> IF thumbIsFalsy(thumbOf(images[i])) THEN ""
                                 ELSE thumbOf(images[i])[1],
                    capturedAt |-> images[i].captured_at,
                    compassAngle |-> images[i].compass_angle,
                    id |-> images[i].id],
         diff |-> diffOf(images[i], normalizedBearing)]]

\* The for loop: the candidates, in response order.
candidatesOf(images, normalizedBearing) ==
    LET kept == SelectSeq(images, LAMBDA image : ~thumbIsFalsy(thumbOf(image)))
    IN  [i \in 1..Len(kept) |->
            [frame |-> frameOf(kept[i]),
             diff |-> diffOf(kept[i], normalizedBearing)]]

\* diff < bestDiff, with <<>> for Number.POSITIVE_INFINITY.
diffLess(diff, bestDiff) ==
    diff # <<>> /\ (bestDiff = <<>> \/ diff[1] < bestDiff[1])

RECURSIVE forEachBestLast(_, _, _, _)
\* Mutation: a later candidate of equal difference replaces the earlier one.
forEachBestLast(candidates, index, bestDiff, preferredIndex) ==
    IF index >= Len(candidates) THEN preferredIndex
    ELSE IF ~diffLess(bestDiff, candidates[index + 1].diff)
              /\ candidates[index + 1].diff # <<>>
         THEN forEachBestLast(candidates, index + 1,
                              candidates[index + 1].diff, index)
         ELSE forEachBestLast(candidates, index + 1, bestDiff, preferredIndex)

RECURSIVE forEachBest(_, _, _, _)
\* candidates.forEach(({ diff }, index) => ...) from `index` on (0-based).
forEachBest(candidates, index, bestDiff, preferredIndex) ==
    IF index >= Len(candidates) THEN preferredIndex
    ELSE IF diffLess(candidates[index + 1].diff, bestDiff)
         THEN forEachBest(candidates, index + 1,
                          candidates[index + 1].diff, index)
         ELSE forEachBest(candidates, index + 1, bestDiff, preferredIndex)

\* Mutation: the preferred index is counted from one.
clampIndexFromOne(preferredIndex, length) == Min(Max(preferredIndex + 1, 1), length)

\* Math.min(Math.max(preferredIndex, 0), frames.length - 1)
clampIndex(preferredIndex, length) == Min(Max(preferredIndex, 0), length - 1)

\* The payload made of an upstream response (its data array) for a
\* normalised bearing: the code after `const images = payload.data ?? []`.
selectPayload(images, normalizedBearing) ==
    LET candidates == candidatesOf(images, normalizedBearing)
        preferredIndex ==
            IF normalizedBearing # <<>>
            THEN forEachBest(candidates, 0, <<>>, 0)
            ELSE 0
        frames == [i \in 1..Len(candidates) |-> candidates[i].frame]
    IN  IF Len(images) = 0 THEN EmptyPayload
        ELSE IF Len(candidates) = 0 THEN EmptyPayload
        ELSE [images |-> frames,
              preferredIndex |-> clampIndex(preferredIndex, Len(frames))]

\* fetchStreetView: the bearing it selects with (always a finite number).
clientNormalizedBearing(bearing) ==
    IF NumberIsFinite(<<normalizeBearing(bearing)>>)
    THEN <<normalizeBearing(bearing)>>
    ELSE <<>>

\* GET: the bearing it selects with, <<>> for null.  bearingParam is <<>>
\* when the query has no bearing, else <<x>> with x what parseFloat gives.
routeNormalizedBearing(bearingParam) ==
    LET bearingPreference ==
            IF bearingParam # <<>> /\ NumberIsFinite(bearingParam[1])
            THEN <<jsRemainder(bearingParam[1][1], 360 * 100)>>
            ELSE <<>>
    IN  IF bearingPreference = <<>> THEN <<>>
        ELSE <<(jsRemainder(bearingPreference[1], 360 * 100) + 360 * 100)
                   % (360 * 100)>>

\* The upstream images the selector is given.
UpstreamImageSamples ==
    {[thumb_2048_url |-> <<"https://images.example/a-2048.jpg">>,
      thumb_1024_url |-> <<"https://images.example/a-1024.jpg">>,
      thumb_512_url |-> <<>>, captured_at |-> <<"2023-05-01T12:00:00.000Z">>,
      compass_angle |-> <<10 * 100>>, id |-> <<"a">>],
     [thumb_2048_url |-> <<>>,
      thumb_1024_url |-> <<"https://images.example/b-1024.jpg">>,
      thumb_512_url |-> <<>>, captured_at |-> <<>>,
      compass_angle |-> <<90 * 100>>, id |-> <<"b">>],
     [thumb_2048_url |-> <<>>, thumb_1024_url |-> <<>>,
      thumb_512_url |-> <<"https://images.example/c-512.jpg">>,
      captured_at |-> <<"2023-05-01T12:00:10.000Z">>,
      compass_angle |-> <<200 * 100>>, id |-> <<"c">>],
     [thumb_2048_url |-> <<>>, thumb_1024_url |-> <<>>, thumb_512_url |-> <<>>,
      captured_at |-> <<"2023-05-01T12:00:15.000Z">>,
      compass_angle |-> <<0>>, id |-> <<"d">>],
     [thumb_2048_url |-> <<"https://images.example/e-2048.jpg">>,
      thumb_1024_url |-> <<>>, thumb_512_url |-> <<>>, captured_at |-> <<>>,
      compass_angle |-> <<>>, id |-> <<>>],
     [thumb_2048_url |-> <<"https://images.example/f-2048.jpg">>,
      thumb_1024_url |-> <<>>, thumb_512_url |-> <<>>,
      captured_at |-> <<"2023-05-01T12:00:20.000Z">>,
      compass_angle |-> <<350 * 100>>, id |-> <<"f">>]}

MaxImages == 3

UpstreamResponses ==
    UNION {[1..n -> UpstreamImageSamples] : n \in 0..MaxImages}

\* The bearings the selector is asked for: NaN, the four headings, and a
\* bearing below zero.
BearingSamples ==
    {<<>>, <<-(headingBearings.east * 100)>>}
        \cup {<<headingBearings[h] * 100>> : h \in Headings}

noSelection == [by |-> "none", normalizedBearing |-> <<>>, payload |-> <<>>]

SelectInit ==
    /\ selImages \in UpstreamResponses
    /\ selBearing \in BearingSamples
    /\ selHasParam \in BOOLEAN
    /\ selOut = noSelection

SelectIdle ==
    /\ selImages = <<>>
    /\ selBearing = <<>>
    /\ selHasParam = FALSE
    /\ selOut = noSelection

\* fetchStreetView(lat, lng, selBearing) on an upstream response selImages.
fetchStreetViewSelects ==
    /\ selOut.by = "none"
    /\ selOut' = [by |-> "fetchStreetView",
                  normalizedBearing |-> clientNormalizedBearing(selBearing),
                  payload |-> <<selectPayload(selImages,
                                    clientNormalizedBearing(selBearing))>>]
    /\ UNCHANGED <<selImages, selBearing, selHasParam>>

\* GET /api/streetview?lat&lng[&bearing] on an upstream response selImages.
routeSelects ==
    LET bearingParam == IF selHasParam THEN <<selBearing>> ELSE <<>>
    IN  /\ selOut.by = "none"
        /\ selOut' = [by |-> "GET",
                      normalizedBearing |-> routeNormalizedBearing(bearingParam),
                      payload |-> <<selectPayload(selImages,
                                        routeNormalizedBearing(bearingParam))>>]
        /\ UNCHANGED <<selImages, selBearing, selHasParam>>

-----------------------------------------------------------------------------
(* fetchStreetView (part_000:189-338) over the browser cache.  A call is   *)
(* one record of `calls`; between its cache lookup and the upstream        *)
(* response it is "fetching".  Reading the body (response.json()) is part  *)
(* of the response step: an abort while the body is read rejects like an   *)
(* abort while the request is in flight.                                   *)

MaxCalls == 2

\* The (lat, lng, bearing) triples fetchStreetView is called with: the
\* origin facing north, and the origin with a bearing that is not a number
\* (the two share a cache key).
FetchRequests ==
    {[lat |-> INITIAL_LAT_LNG[1], lng |-> INITIAL_LAT_LNG[2], bearing |-> b] :
        b \in {<<headingBearings.north * 100>>, <<>>}}

\* Date.now() advances by a TTL between the steps of this part.
FetchClockSteps == {CACHE_TTL_MS}

\* The upstream responses (data arrays) of this part: no image, one image
\* without a thumbnail, and two images of which the second is the closer.
FetchResponses ==
    LET withoutThumb == CHOOSE image \in UpstreamImageSamples :
                            thumbIsFalsy(thumbOf(image))
        at(angle) == CHOOSE image \in UpstreamImageSamples :
                         image.compass_angle = <<angle>>
    IN  {<<>>, <<withoutThumb>>, <<at(200 * 100), at(10 * 100)>>}

\* The ways the upstream request fails: fetch rejects (the error is
\* rethrown), or the status is not ok.
FetchFailures ==
    {"TypeError", "Street imagery request failed."}

\* The request fetchStreetView hands to the cache: the normalised bearing.
normalizedRequest(req) ==
    [req EXCEPT !.bearing = <<normalizeBearing(req.bearing)>>]

\* Mutation: a cached payload counts only if it has frames.
cachedHasFrames(cached) == cached # <<>> /\ Len(cached[1].images) > 0

\* if (cached): an object, also one with no frames, is truthy.
cachedIsTruthy(cached) == cached # <<>>

\* History: how long ago an upstream lookup for the key resolved empty, if
\* that result was not overwritten since and not lost with the page.
emptyAgeOf(key) ==
    IF emptySince[key] = <<>> THEN <<>> ELSE <<now - emptySince[key][1]>>

noSettled ==
    [req |-> [lat |-> 0, lng |-> 0, bearing |-> <<>>], key |-> "",
     emptyAge |-> <<>>, requested |-> FALSE, stage |-> "none",
     result |-> <<>>, error |-> ""]

\* A call that has settled leaves `calls` holding only that it was made.
made(call) ==
    [call EXCEPT !.stage = "settled", !.emptyAge = <<>>, !.requested = FALSE]

\* fetchStreetView(lat, lng, bearing, { signal }) up to its first wait for
\* the network.  signalAborted: the signal is aborted when the call is made.
fetchStreetViewCall(req, signalAborted) ==
    LET call == [req |-> req,
                 key |-> cacheKeyOf(normalizedRequest(req)),
                 emptyAge |-> emptyAgeOf(cacheKeyOf(normalizedRequest(req))),
                 requested |-> FALSE,
                 stage |-> "fetching", result |-> <<>>, error |-> ""]
        rejected(error) == [call EXCEPT !.stage = "rejected", !.error = error]
    IN  /\ Len(calls) < MaxCalls
        /\ UNCHANGED <<accessToken, emptySince>>
        /\ IF signalAborted
           THEN /\ calls' = Append(calls, made(call))
                /\ lastSettled' = rejected("AbortError")
                /\ UNCHANGED cacheVars
           ELSE /\ getCachedStreetView(normalizedRequest(req))
                /\ IF cachedIsTruthy(lastCall'.returned)
                   THEN /\ calls' = Append(calls, made(call))
                        /\ lastSettled' = [call EXCEPT !.stage = "resolved",
                                                       !.result = lastCall'.returned]
                   ELSE IF ~accessToken
                   THEN /\ calls' = Append(calls, made(call))
                        /\ lastSettled' = rejected(
                               "Street imagery unavailable. No access token configured.")
                   ELSE /\ calls' = Append(calls, [call EXCEPT !.requested = TRUE])
                        /\ lastSettled' = noSettled

\* controller.abort() while the call waits for the network: fetch (or the
\* body read) rejects with the AbortError, which the call rethrows.
fetchStreetViewAborted(i) ==
    /\ calls[i].stage = "fetching"
    /\ calls' = [calls EXCEPT ![i] = made(calls[i])]
    /\ lastSettled' = [calls[i] EXCEPT !.stage = "rejected", !.error = "AbortError"]
    /\ UNCHANGED <<cacheVars, accessToken, emptySince>>

\* The upstream request fails.
fetchStreetViewFails(i, failure) ==
    /\ calls[i].stage = "fetching"
    /\ calls' = [calls EXCEPT ![i] = made(calls[i])]
    /\ lastSettled' = [calls[i] EXCEPT !.stage = "rejected", !.error = failure]
    /\ UNCHANGED <<cacheVars, accessToken, emptySince>>

\* The upstream response is ok and its body is read: the payload is
\* selected, written to the cache and returned.
fetchStreetViewResponds(i, images, setItemThrows) ==
    LET req == normalizedRequest(calls[i].req)
        payload == selectPayload(images, clientNormalizedBearing(calls[i].req.bearing))
    IN  /\ calls[i].stage = "fetching"
        /\ setCachedStreetView(req, payload, setItemThrows)
        /\ calls' = [calls EXCEPT ![i] = made(calls[i])]
        /\ lastSettled' = [calls[i] EXCEPT !.stage = "resolved",
                                           !.result = <<payload>>]
        /\ emptySince' =
               [emptySince EXCEPT ![calls[i].key] =
                   IF payload = EmptyPayload /\ hasWindow THEN <<now>> ELSE <<>>]
        /\ UNCHANGED accessToken

\* Date.now() moves on while calls are under way.
fetchClockAdvance(step) ==
    /\ ClockAdvance(step)
    /\ lastSettled' = noSettled
    /\ UNCHANGED <<accessToken, calls, emptySince>>

\* The page is loaded again: the calls under way are gone with the page, and
\* the build that is loaded has the token inlined or has not.
fetchPageLoad ==
    /\ PageLoad
    /\ calls' = [i \in 1..Len(calls) |-> made(calls[i])]
    /\ lastSettled' = noSettled
    /\ emptySince' =
           [k \in CacheKeys |->
               IF /\ emptySince[k] # <<>>
                  /\ storageWorks
                  /\ localStorage[k] # <<>>
                  /\ storedEntry(localStorage[k][1]).cachedAt = emptySince[k][1]
                  /\ storedEntry(localStorage[k][1]).payload = EmptyPayload
               THEN emptySince[k]
               ELSE <<>>]
    /\ accessToken' \in BOOLEAN

FetchInit ==
    /\ accessToken \in BOOLEAN
    /\ calls = <<>>
    /\ emptySince = [k \in CacheKeys |-> <<>>]
    /\ lastSettled = noSettled

FetchIdle ==
    /\ accessToken = TRUE
    /\ calls = <<>>
    /\ emptySince = [k \in CacheKeys |-> <<>>]
    /\ lastSettled = noSettled

-----------------------------------------------------------------------------
(* The imagery pipeline the component is wired to: the fetch effect of     *)
(* ComplaintMap (ComplaintMap.tsx:477-539), the /api/streetview route      *)
(* (route.ts:18-225) it calls, and the route's file-backed cache           *)
(* (ComplaintMap.tsx:740-827).  The query string carries lat, lng and the  *)
(* bearing as Number.toString gives them and parseFloat reads them back:   *)
(* the same numbers.                                                       *)

MaxFetches == 2

\* const normalizeBearing of the file-backed cache (no finiteness test).
serverNormalizeBearing(bearing) ==
    LET normalized == jsRemainder(bearing, 360 * 100)
    IN  IF normalized < 0 THEN normalized + 360 * 100 ELSE normalized

getKey(lat, lng, bearing) ==
    toFixed(lat, 10, 6) \o "|" \o toFixed(lng, 10, 6) \o "|" \o toFixed(bearing, 10, 1)

\* cache.entries[key], <<>> when there is none.
entryAt(key) ==
    IF \E e \in cacheStore : e.key = key
    THEN <<CHOOSE e \in cacheStore : e.key = key>>
    ELSE <<>>

\* getCachedStreetView of the file-backed cache: the payload returned and
\* the store after the call.
serverGetCachedStreetView(lat, lng, bearing) ==
    LET key == getKey(lat, lng, serverNormalizeBearing(bearing))
        entry == entryAt(key)
    IN  IF entry = <<>>
        THEN [payload |-> <<>>, store |-> cacheStore]
        ELSE IF now - entry[1].cachedAt > CACHE_TTL_MS
        THEN [payload |-> <<>>, store |-> cacheStore \ {entry[1]}]
        ELSE [payload |-> <<[images |-> entry[1].images,
                             preferredIndex |-> entry[1].preferredIndex]>>,
              store |-> cacheStore]

\* setCachedStreetView of the file-backed cache: the store after the call.
serverSetCachedStreetView(lat, lng, bearing, payload) ==
    LET key == getKey(lat, lng, serverNormalizeBearing(bearing))
    IN  {e \in cacheStore : e.key # key}
            \cup {[key |-> key, lat |-> lat, lng |-> lng,
                   bearing |-> serverNormalizeBearing(bearing),
                   cachedAt |-> now,
                   images |-> payload.images,
                   preferredIndex |-> payload.preferredIndex]}

\* The state the street image is drawn from.
display ==
    [streetFrames |-> streetFrames,
     currentFrameIndex |-> currentFrameIndex,
     streetImageError |-> streetImageError,
     isStreetImageLoading |-> isStreetImageLoading]

setDisplay(d) ==
    /\ streetFrames' = d.streetFrames
    /\ currentFrameIndex' = d.currentFrameIndex
    /\ streetImageError' = d.streetImageError
    /\ isStreetImageLoading' = d.isStreetImageLoading

\* .then((data) => ...) of the effect, on the display d.
thenData(cancelled, data, d) ==
    IF cancelled THEN d
    ELSE [d EXCEPT
            !.streetFrames = data.images,
            !.currentFrameIndex =
                IF Len(data.images) > 0
                THEN Min(Max(data.preferredIndex, 0), Len(data.images) - 1)
                ELSE 0]

\* .catch((error) => ...) of the effect, on the display d.
catchError(cancelled, error, d) ==
    IF cancelled \/ error = "AbortError" THEN d
    ELSE [d EXCEPT !.streetImageError = <<"Mapillary imagery unavailable right now.">>,
                   !.streetFrames = <<>>,
                   !.currentFrameIndex = 0]

\* Mutation: the chain has no .finally; nothing clears the loading flag.
finallyMissing(cancelled, d) == d

\* Mutation: the loading flag is cleared whichever fetch completes.
finallyUnguarded(cancelled, d) == [d EXCEPT !.isStreetImageLoading = FALSE]

\* .finally(() => ...) of the effect, on the display d.
finallyDone(cancelled, d) ==
    IF ~cancelled THEN [d EXCEPT !.isStreetImageLoading = FALSE] ELSE d

\* The fetch an effect run starts for the rendered state.
newFetch(latLng, h) ==
    [lat |-> latLng[1], lng |-> latLng[2], bearing |-> headingBearings[h] * 100,
     cancelled |-> FALSE, client |-> "pending", server |-> "unsent",
     response |-> <<>>]

\* Mutation: the cleanup leaves the previous fetch alone.
cleanupNothing(fs) == fs

\* The cleanup of the effect: cancelled = true; controller.abort().
cleanup(fs) ==
    IF Len(fs) = 0 THEN fs ELSE [fs EXCEPT ![Len(fs)].cancelled = TRUE]

noCompletion ==
    [fetch |-> 0, cancelled |-> FALSE, lat |-> 0, lng |-> 0, bearing |-> 0,
     before |-> <<>>, after |-> <<>>]

noWrite == [fetch |-> 0, cancelled |-> FALSE]

\* Mutation: the effect leaves the frames and the index of the previous
\* state in place until the new fetch completes.
fetchEffectKeepingFrames ==
    IF heading' = heading /\ position' = position
    THEN UNCHANGED <<fetches, streetFrames, currentFrameIndex, streetImageError,
                     isStreetImageLoading>>
    ELSE /\ fetches' = Append(cleanup(fetches),
                              newFetch(memo'.intersectionLatLng, heading'))
         /\ setDisplay([streetFrames |-> streetFrames,
                        currentFrameIndex |-> currentFrameIndex,
                        streetImageError |-> <<>>, isStreetImageLoading |-> TRUE])

\* Mutation: the effect has no dependency list and runs after every render.
fetchEffectOnEveryRender ==
    /\ fetches' = Append(cleanup(fetches),
                         newFetch(memo'.intersectionLatLng, heading'))
    /\ setDisplay([streetFrames |-> <<>>, currentFrameIndex |-> 0,
                   streetImageError |-> <<>>, isStreetImageLoading |-> TRUE])

\* The effect after a render: it runs again when heading or
\* intersectionLatLng changed (a move that is refused keeps both).
fetchEffect ==
    IF heading' = heading /\ position' = position
    THEN UNCHANGED <<fetches, streetFrames, currentFrameIndex, streetImageError,
                     isStreetImageLoading>>
    ELSE /\ fetches' = Append(cleanup(fetches),
                              newFetch(memo'.intersectionLatLng, heading'))
         /\ setDisplay([streetFrames |-> <<>>, currentFrameIndex |-> 0,
                        streetImageError |-> <<>>, isStreetImageLoading |-> TRUE])

\* Mutation: the keys are dead while the street image is loading.
keyPressedWhenLoaded(handlerStep) ==
    /\ ~isStreetImageLoading
    /\ handlerStep
    /\ UNCHANGED <<fetches, streetFrames, currentFrameIndex, streetImageError,
                   isStreetImageLoading, cacheStore, serverToken, lastCompletion,
                   lastWrite>>

\* A key is pressed: the handler runs, the component renders, the effect
\* runs if its dependencies changed.
keyPressed(handlerStep) ==
    /\ handlerStep
    /\ fetchEffect
    /\ Len(fetches') <= MaxFetches
    /\ lastCompletion' = noCompletion
    /\ lastWrite' = noWrite
    /\ UNCHANGED <<cacheStore, serverToken>>

\* The responses of the route.
jsonResponse(payload) == [ok |-> TRUE, status |-> 200, data |-> <<payload>>]

errorResponse(status) == [ok |-> FALSE, status |-> status, data |-> <<>>]

\* A fetch nothing will act on again (its promise chain has settled and the
\* route has answered) keeps its cancelled flag only.
spent(fetch) ==
    IF fetch.client = "settled" /\ fetch.server = "responded"
    THEN [fetch EXCEPT !.lat = 0, !.lng = 0, !.bearing = 0, !.response = <<>>]
    ELSE fetch

\* What the browser keeps of a response of the route: nothing once the
\* fetch is aborted or its promise chain has settled.
delivered(fetch, response) ==
    IF fetch.cancelled \/ fetch.client = "settled" THEN <<>> ELSE <<response>>

\* The bearing parameter of a fetch as the route parses it.
bearingParamOf(fetch) == <<<<fetch.bearing>>>>

\* GET, up to the upstream request: parameters, token, cache lookup.  The
\* route never looks at request.signal: it runs the same for a fetch the
\* client has aborted, if the request left the browser at all.
routeGET(i) ==
    /\ i \in 1..Len(fetches)
    /\ fetches[i].server = "unsent"
    /\ LET fetch == fetches[i]
           normalizedBearing == routeNormalizedBearing(bearingParamOf(fetch))
           looked == IF normalizedBearing # <<>>
                     THEN serverGetCachedStreetView(fetch.lat, fetch.lng,
                                                    normalizedBearing[1])
                     ELSE [payload |-> <<>>, store |-> cacheStore]
       IN  IF ~serverToken
           THEN /\ fetches' = [fetches EXCEPT ![i] = spent(
                                 [fetch EXCEPT !.server = "responded",
                                               !.response = delivered(fetch, errorResponse(500))])]
                /\ UNCHANGED cacheStore
           ELSE IF looked.payload # <<>>
           THEN /\ fetches' = [fetches EXCEPT ![i] = spent(
                                 [fetch EXCEPT
                                    !.server = "responded",
                                    !.response =
                                        delivered(fetch, jsonResponse(looked.payload[1]))])]
                /\ cacheStore' = looked.store
           ELSE /\ fetches' = [fetches EXCEPT ![i].server = "upstream"]
                /\ cacheStore' = looked.store
    /\ lastCompletion' = noCompletion
    /\ lastWrite' = noWrite
    /\ UNCHANGED <<streetFrames, currentFrameIndex, streetImageError,
                   isStreetImageLoading, serverToken>>

\* Mutation: a failed upstream request is cached as a lookup without images.
routeUpstreamFailsCachingEmpty(i) ==
    /\ i \in 1..Len(fetches)
    /\ fetches[i].server = "upstream"
    /\ fetches' = [fetches EXCEPT ![i] = spent(
                     [fetches[i] EXCEPT
                        !.server = "responded",
                        !.response = delivered(fetches[i], errorResponse(502))])]
    /\ cacheStore' = serverSetCachedStreetView(fetches[i].lat, fetches[i].lng,
                                               fetches[i].bearing, EmptyPayload)
    /\ lastCompletion' = noCompletion
    /\ lastWrite' = noWrite
    /\ UNCHANGED <<streetFrames, currentFrameIndex, streetImageError,
                   isStreetImageLoading, serverToken>>

\* GET, the upstream request fails: fetch rejects or the status is not ok.
routeUpstreamFails(i) ==
    /\ i \in 1..Len(fetches)
    /\ fetches[i].server = "upstream"
    /\ fetches' = [fetches EXCEPT ![i] = spent(
                     [fetches[i] EXCEPT
                        !.server = "responded",
                        !.response = delivered(fetches[i], errorResponse(502))])]
    /\ lastCompletion' = noCompletion
    /\ lastWrite' = noWrite
    /\ UNCHANGED <<streetFrames, currentFrameIndex, streetImageError,
                   isStreetImageLoading, cacheStore, serverToken>>

\* GET, the upstream request answers with a data array: selection, cache
\* write, response.  persistThrows: writing the cache file fails, after the
\* entry was put in the store, and the route answers 500.
routeUpstreamResponds(i, images, persistThrows) ==
    /\ i \in 1..Len(fetches)
    /\ fetches[i].server = "upstream"
    /\ LET fetch == fetches[i]
           normalizedBearing == routeNormalizedBearing(bearingParamOf(fetch))
           payload == selectPayload(images, normalizedBearing)
       IN  /\ IF normalizedBearing # <<>>
              THEN /\ cacheStore' = serverSetCachedStreetView(
                                        fetch.lat, fetch.lng,
                                        normalizedBearing[1], payload)
                   /\ lastWrite' = [fetch |-> i, cancelled |-> fetch.cancelled]
              ELSE /\ UNCHANGED cacheStore
                   /\ lastWrite' = noWrite
           /\ fetches' = [fetches EXCEPT ![i] = spent(
                            [fetch EXCEPT
                               !.server = "responded",
                               !.response =
                                   IF normalizedBearing # <<>> /\ persistThrows
                                   THEN delivered(fetch, errorResponse(500))
                                   ELSE delivered(fetch, jsonResponse(payload))])]
    /\ lastCompletion' = noCompletion
    /\ UNCHANGED <<streetFrames, currentFrameIndex, streetImageError,
                   isStreetImageLoading, serverToken>>

\* The promise chain of fetch i runs on a response: the first .then, then
\* .then(data) or .catch, then .finally.
settles(i, response) ==
    LET fetch == fetches[i]
        settled == IF response.ok
                   THEN thenData(fetch.cancelled, response.data[1], display)
                   ELSE catchError(fetch.cancelled, "Street view request failed",
                                   display)
        after == finallyDone(fetch.cancelled, settled)
    IN  /\ setDisplay(after)
        /\ lastCompletion' = [fetch |-> i, cancelled |-> fetch.cancelled,
                              lat |-> fetch.lat, lng |-> fetch.lng,
                              bearing |-> fetch.bearing,
                              before |-> <<display>>, after |-> <<after>>]

\* The promise chain of a fetch settles with the route's response.
fetchCompletes(i) ==
    /\ i \in 1..Len(fetches)
    /\ fetches[i].client = "pending"
    /\ ~fetches[i].cancelled
    /\ fetches[i].server = "responded"
    /\ settles(i, fetches[i].response[1])
    /\ fetches' = [fetches EXCEPT ![i] = spent(
                     [fetches[i] EXCEPT !.client = "settled", !.response = <<>>])]
    /\ lastWrite' = noWrite
    /\ UNCHANGED <<cacheStore, serverToken>>

\* The component as the browser sees it: a response to a fetch, whatever
\* the route did to make it, and the promise chain settling with it.
fetchAnswered(i, response) ==
    /\ i \in 1..Len(fetches)
    /\ fetches[i].client = "pending"
    /\ ~fetches[i].cancelled
    /\ fetches[i].server = "unsent"
    /\ settles(i, response)
    /\ fetches' = [fetches EXCEPT ![i] = spent(
                     [fetches[i] EXCEPT !.client = "settled",
                                        !.server = "responded"])]
    /\ lastWrite' = noWrite
    /\ UNCHANGED <<cacheStore, serverToken>>

\* The responses the component is given in that view.
ComponentResponses ==
    {errorResponse(500), errorResponse(502)}
        \cup {jsonResponse(payload) : payload \in PayloadSamples}

\* The promise chain of an aborted fetch settles: fetch (or response.json)
\* rejects with an AbortError, then .catch, then .finally.
fetchAborts(i) ==
    /\ i \in 1..Len(fetches)
    /\ fetches[i].client = "pending"
    /\ fetches[i].cancelled
    /\ LET fetch == fetches[i]
           after == finallyDone(fetch.cancelled,
                                catchError(fetch.cancelled, "AbortError", display))
       IN  /\ setDisplay(after)
           /\ lastCompletion' = [fetch |-> i, cancelled |-> fetch.cancelled,
                                 lat |-> fetch.lat, lng |-> fetch.lng,
                                 bearing |-> fetch.bearing,
                                 before |-> <<display>>, after |-> <<after>>]
    /\ fetches' = [fetches EXCEPT ![i] = spent(
                     [fetches[i] EXCEPT !.client = "settled", !.response = <<>>])]
    /\ lastWrite' = noWrite
    /\ UNCHANGED <<cacheStore, serverToken>>

\* The upstream responses of this part: no image, and two images of which
\* the second is the closer to north.
ImageryResponses ==
    {images \in FetchResponses : Len(images) # 1}

\* The component mounts at the north-east corner of the grid facing north:
\* the effect runs once.
ImageryInit ==
    /\ position = initialPositionFromMathRandom(<<80, 81>>, <<12, 13>>)
    /\ NavInit
    /\ serverToken \in BOOLEAN
    /\ cacheStore = {}
    /\ fetches = <<newFetch(memo.intersectionLatLng, heading)>>
    /\ streetFrames = <<>>
    /\ currentFrameIndex = 0
    /\ streetImageError = <<>>
    /\ isStreetImageLoading = TRUE
    /\ lastCompletion = noCompletion
    /\ lastWrite = noWrite

ImageryIdle ==
    /\ serverToken = TRUE
    /\ cacheStore = {}
    /\ fetches = <<>>
    /\ streetFrames = <<>>
    /\ currentFrameIndex = 0
    /\ streetImageError = <<>>
    /\ isStreetImageLoading = TRUE
    /\ lastCompletion = noCompletion
    /\ lastWrite = noWrite

-----------------------------------------------------------------------------
(* The file-backed cache of the route, call by call                        *)
(* (ComplaintMap.tsx:740-827).  The calls run in one Node process and      *)
(* interleave where they await the file system: at fs.readFile of          *)
(* loadCache and at fs.mkdir and fs.writeFile of persistCache.  What a     *)
(* call does between two of those awaits is one step.  cacheStore holds a  *)
(* reference: `objects` are the CacheShape objects by reference, each the  *)
(* set of its entries, and a call keeps the reference loadCache gave it.   *)
(* A file read gives the content the file has when the read completes, a   *)
(* file write puts its content when it completes.                          *)

MaxFileCalls == 3

MaxFileTicks == 1

\* Date.now() advances by more than a TTL between two steps of this part.
FileClockSteps == {CACHE_TTL_MS + 1}

FileRequests ==
    {[lat |-> INITIAL_LAT_LNG[1], lng |-> INITIAL_LAT_LNG[2], bearing |-> b] :
        b \in {headingBearings.north * 100}}

fileKeyOf(req) == getKey(req.lat, req.lng, serverNormalizeBearing(req.bearing))

\* entries[key] of a CacheShape object, <<>> when there is none.
entryIn(entries, key) ==
    IF \E e \in entries : e.key = key
    THEN <<CHOOSE e \in entries : e.key = key>>
    ELSE <<>>

\* The calls whose setCachedStreetView has returned.
setsCompleted ==
    {j \in 1..Len(fileCalls) : fileCalls[j].op = "set" /\ fileCalls[j].pc = "done"}

\* How many calls have put an entry in a CacheShape object so far.
entriesPut == Cardinality({j \in 1..Len(fileCalls) : fileCalls[j].put > 0})

newFileCall(op, req, payload) ==
    [op |-> op, req |-> req, payload |-> payload, pc |-> "readFile",
     writing |-> {}, returned |-> <<>>, decided |-> FALSE, decidedAt |-> 0,
     put |-> 0, after |-> setsCompleted]

\* loadCache from `if (cacheStore)` or, with the data of the file, from the
\* completion of readFile on: the reference returned and the objects.  After
\* readFile cacheStore is assigned without looking at it again.
loaded(awaited, data) ==
    IF ~awaited
    THEN [ref |-> storeRef, all |-> objects]
    ELSE [ref |-> Len(objects) + 1,
          all |-> Append(objects, IF data # <<>> THEN data[1] ELSE {})]

\* getCachedStreetView / setCachedStreetView of call i after `await
\* loadCache()`, up to the await of fs.mkdir in persistCache or the return.
afterLoadCache(cs, i, cache) ==
    LET call == cs[i]
        key == fileKeyOf(call.req)
        entry == entryIn(cache.all[cache.ref], key)
        written == [key |-> key, lat |-> call.req.lat, lng |-> call.req.lng,
                    bearing |-> serverNormalizeBearing(call.req.bearing),
                    cachedAt |-> now,
                    images |-> call.payload[1].images,
                    preferredIndex |-> call.payload[1].preferredIndex]
    IN  /\ storeRef' = cache.ref
        /\ IF call.op = "set"
           THEN /\ objects' = [cache.all EXCEPT ![cache.ref] =
                                  {e \in @ : e.key # key} \cup {written}]
                /\ fileCalls' = [cs EXCEPT ![i] =
                                    [call EXCEPT !.pc = "mkdir", !.decided = TRUE,
                                                 !.decidedAt = now,
                                                 !.put = entriesPut + 1]]
           ELSE IF entry = <<>>
           THEN /\ objects' = cache.all
                /\ fileCalls' = [cs EXCEPT ![i] =
                                    [call EXCEPT !.pc = "done", !.decided = TRUE,
                                                 !.decidedAt = now]]
           ELSE IF now - entry[1].cachedAt > CACHE_TTL_MS
           THEN /\ objects' = [cache.all EXCEPT ![cache.ref] = @ \ {entry[1]}]
                /\ fileCalls' = [cs EXCEPT ![i] =
                                    [call EXCEPT !.pc = "mkdir", !.decided = TRUE,
                                                 !.decidedAt = now]]
           ELSE /\ objects' = cache.all
                /\ fileCalls' = [cs EXCEPT ![i] =
                                    [call EXCEPT
                                       !.pc = "done", !.decided = TRUE,
                                       !.decidedAt = now,
                                       !.returned =
                                           <<[images |-> entry[1].images,
                                              preferredIndex |-> entry[1].preferredIndex]>>]]

\* A call of getCachedStreetView (payload <<>>) or setCachedStreetView
\* starts, while cacheStore is null: it awaits fs.readFile.
fileCallStarts(op, req, payload) ==
    /\ Len(fileCalls) < MaxFileCalls
    /\ storeRef = 0
    /\ fileCalls' = Append(fileCalls, newFileCall(op, req, payload))
    /\ UNCHANGED <<storeRef, objects, cacheFile>>

\* A call starts while cacheStore is set: loadCache returns it.
fileCallStartsLoaded(op, req, payload) ==
    /\ Len(fileCalls) < MaxFileCalls
    /\ storeRef # 0
    /\ afterLoadCache(Append(fileCalls, newFileCall(op, req, payload)),
                      Len(fileCalls) + 1, loaded(FALSE, <<>>))
    /\ UNCHANGED cacheFile

\* fs.readFile of call i completes (or fails: no file), loadCache assigns
\* cacheStore and returns, and the call goes on.
readFileCompletes(i) ==
    /\ i \in 1..Len(fileCalls)
    /\ fileCalls[i].pc = "readFile"
    /\ afterLoadCache(fileCalls, i, loaded(TRUE, cacheFile))
    /\ UNCHANGED cacheFile

\* fs.mkdir of call i completes: JSON.stringify(cacheStore) is evaluated
\* and handed to fs.writeFile.
mkdirCompletes(i) ==
    /\ i \in 1..Len(fileCalls)
    /\ fileCalls[i].pc = "mkdir"
    /\ fileCalls' = [fileCalls EXCEPT ![i].pc = "writeFile",
                                      ![i].writing = objects[storeRef]]
    /\ UNCHANGED <<storeRef, objects, cacheFile>>

\* fs.writeFile of call i completes, and with it the call.
writeFileCompletes(i) ==
    /\ i \in 1..Len(fileCalls)
    /\ fileCalls[i].pc = "writeFile"
    /\ cacheFile' = <<fileCalls[i].writing>>
    /\ fileCalls' = [fileCalls EXCEPT ![i].pc = "done", ![i].writing = {}]
    /\ UNCHANGED <<storeRef, objects>>

\* Date.now() advances between two steps.
fileClockAdvance(step) ==
    /\ ticks < MaxFileTicks
    /\ now' = now + step
    /\ ticks' = ticks + 1
    /\ UNCHANGED <<hasWindow, storageWorks, persistentStorage, memoryCache,
                   localStorage, writes, lastCall>>
    /\ UNCHANGED fileVars

\* The process starts with cacheStore null, and with no cache file or with
\* the file an earlier process left.
FileInit ==
    /\ storeRef = 0
    /\ objects = <<>>
    /\ cacheFile \in {<<>>,
                      <<{[key |-> fileKeyOf(req), lat |-> req.lat, lng |-> req.lng,
                          bearing |-> serverNormalizeBearing(req.bearing),
                          cachedAt |-> 0, images |-> EmptyPayload.images,
                          preferredIndex |-> EmptyPayload.preferredIndex] :
                            req \in {r \in FileRequests : r.bearing = 0}}>>}
    /\ fileCalls = <<>>

FileIdle ==
    /\ storeRef = 0
    /\ objects = <<>>
    /\ cacheFile = <<>>
    /\ fileCalls = <<>>

-----------------------------------------------------------------------------
(* The component on the screen.  streetFrames, currentFrameIndex,          *)
(* streetImageError and isStreetImageLoading above are the state with      *)
(* every update made so far applied; `rendered` is that state as the       *)
(* render committed last showed it.  React renders a key press at once     *)
(* and runs the effects of that render before the handler's task ends,     *)
(* but the updates an effect, a promise callback or a timer callback makes *)
(* are rendered in a later task, and the effects of such a render run      *)
(* later still: the browser may repaint, and its timers may fire, in       *)
(* between.  Position, heading and status line are only set by key         *)
(* handlers, so the screen always shows their current values.              *)

\* The auto-advance effect has dependencies [streetFrames.length]: it is to
\* run when the committed length differs from the one it last ran with.
autoAdvanceDue == Len(rendered.streetFrames) # timerFor

\* Mutation: the effect returns no cleanup.
clearIntervalNothing(live) == live

\* The cleanup of the auto-advance effect: window.clearInterval(interval).
clearInterval(live) == {}

\* The effects of the committed render run: the cleanup of the previous run
\* of the auto-advance effect, then its body, whose callback closes over
\* the streetFrames of that render.
autoAdvanceEffect ==
    IF ~autoAdvanceDue
    THEN UNCHANGED <<intervals, timerFor, timersStarted>>
    ELSE /\ timerFor' = Len(rendered.streetFrames)
         /\ IF Len(rendered.streetFrames) <= 1
            THEN /\ intervals' = clearInterval(intervals)
                 /\ UNCHANGED timersStarted
            ELSE /\ intervals' = clearInterval(intervals)
                                    \cup {[id |-> timersStarted + 1,
                                           streetFrames |-> rendered.streetFrames,
                                           elapsed |-> FALSE]}
                 /\ timersStarted' = timersStarted + 1

\* A key press on the screen: effects still owed to the last render run
\* first, then the handler's updates are rendered with its effects; the
\* updates the fetch effect makes wait for a later render.
keyPressedOnScreen(handlerStep) ==
    /\ keyPressed(handlerStep)
    /\ autoAdvanceEffect
    /\ UNCHANGED rendered

\* React renders the updates made since the last render.
renders ==
    /\ rendered # display
    /\ autoAdvanceEffect
    /\ rendered' = display
    /\ UNCHANGED <<navVars, imgVars>>

\* The effects of the last render run.
effectsRun ==
    /\ autoAdvanceDue
    /\ autoAdvanceEffect
    /\ UNCHANGED <<navVars, imgVars, rendered>>

\* The 4500 ms of an interval run out.  The work React has scheduled takes
\* far less, so none of it is still outstanding from before the interval
\* was set or last fired.
intervalElapses(interval) ==
    /\ interval \in intervals
    /\ ~interval.elapsed
    /\ rendered = display
    /\ ~autoAdvanceDue
    /\ intervals' = (intervals \ {interval})
                        \cup {[interval EXCEPT !.elapsed = TRUE]}
    /\ UNCHANGED <<navVars, imgVars, rendered, timerFor, timersStarted>>

\* An interval fires: setCurrentFrameIndex((index) => (index + 1) %
\* streetFrames.length), with the streetFrames its effect run closed over.
intervalFires(interval) ==
    /\ interval \in intervals
    /\ interval.elapsed
    /\ currentFrameIndex' = (currentFrameIndex + 1) % Len(interval.streetFrames)
    /\ intervals' = (intervals \ {interval})
                        \cup {[interval EXCEPT !.elapsed = FALSE]}
    /\ UNCHANGED <<fetches, streetFrames, streetImageError, isStreetImageLoading,
                   cacheStore, serverToken, lastCompletion, lastWrite>>
    /\ UNCHANGED <<navVars, rendered, timerFor, timersStarted>>

\* The first render shows the initial values of useState.
ScreenInit ==
    /\ rendered = [streetFrames |-> <<>>, currentFrameIndex |-> 0,
                   streetImageError |-> <<>>, isStreetImageLoading |-> FALSE]
    /\ intervals = {}
    /\ timerFor = 0
    /\ timersStarted = 0

ScreenIdle ==
    /\ rendered = [streetFrames |-> <<>>, currentFrameIndex |-> 0,
                   streetImageError |-> <<>>, isStreetImageLoading |-> FALSE]
    /\ intervals = {}
    /\ timerFor = 0
    /\ timersStarted = 0

-----------------------------------------------------------------------------
(* The parameter and token checks of the two /api/streetview handlers.  A  *)
(* query parameter is <<>> when searchParams.get gives null, else <<s>>    *)
(* with s the sequence of its characters.                                  *)

DecimalDigits == {"0", "1", "2", "3", "4", "5", "6", "7", "8", "9"}

WhiteSpace == {" ", "\t", "\n"}

\* The sequence s from its i-th element on.
from(s, i) == SubSeq(s, i, Len(s))

RECURSIVE trimStart(_)
trimStart(s) ==
    IF Len(s) > 0 /\ s[1] \in WhiteSpace THEN trimStart(Tail(s)) ELSE s

RECURSIVE leadingDigits(_)
\* The number of decimal digits s begins with.
leadingDigits(s) ==
    IF Len(s) > 0 /\ s[1] \in DecimalDigits THEN 1 + leadingDigits(Tail(s)) ELSE 0

RECURSIVE digitsValue(_, _)
\* The value of the first n characters of s, all digits, capped at 1000.
digitsValue(s, n) ==
    IF n = 0 THEN 0
    ELSE LET high == digitsValue(s, n - 1)
             digit == CHOOSE d \in 0..9 : ToString(d) = s[n]
         IN  IF high * 10 + digit > 1000 THEN 1000 ELSE high * 10 + digit

RECURSIVE leadingZeros(_)
\* The number of zeros s begins with.
leadingZeros(s) ==
    IF Len(s) > 0 /\ s[1] = "0" THEN 1 + leadingZeros(Tail(s)) ELSE 0

RECURSIVE allZero(_, _)
allZero(s, n) == n = 0 \/ (s[n] = "0" /\ allZero(s, n - 1))

\* Number.parseFloat(s), as far as the handlers look at it: "NaN" when no
\* prefix of the trimmed string is a decimal literal, "Infinity" for the
\* literal Infinity and for a literal beyond the range of a double (decided
\* by the decimal exponent of its leading digit, 308 being the last finite
\* one), else "finite".
parseFloat(s) ==
    LET trimmed == trimStart(s)
        signed == Len(trimmed) > 0 /\ trimmed[1] \in {"+", "-"}
        body == IF signed THEN Tail(trimmed) ELSE trimmed
        whole == leadingDigits(body)
        afterWhole == from(body, whole + 1)
        hasPoint == Len(afterWhole) > 0 /\ afterWhole[1] = "."
        fraction == IF hasPoint THEN leadingDigits(Tail(afterWhole)) ELSE 0
        afterMantissa == IF hasPoint THEN from(afterWhole, fraction + 2)
                         ELSE afterWhole
        hasE == Len(afterMantissa) > 1 /\ afterMantissa[1] \in {"e", "E"}
        afterE == IF hasE THEN Tail(afterMantissa) ELSE <<>>
        expSigned == Len(afterE) > 0 /\ afterE[1] \in {"+", "-"}
        expBody == IF expSigned THEN Tail(afterE) ELSE afterE
        expDigits == leadingDigits(expBody)
        exponent == IF expDigits = 0 THEN 0
                    ELSE IF expSigned /\ afterE[1] = "-"
                    THEN -digitsValue(expBody, expDigits)
                    ELSE digitsValue(expBody, expDigits)
        zero == allZero(body, whole)
                    /\ (~hasPoint \/ allZero(Tail(afterWhole), fraction))
        leadExponent ==
            IF ~allZero(body, whole)
            THEN whole - leadingZeros(body) - 1 + exponent
            ELSE exponent - leadingZeros(Tail(afterWhole)) - 1
    IN  IF Len(body) >= 8 /\ SubSeq(body, 1, 8) = <<"I", "n", "f", "i", "n", "i", "t", "y">>
        THEN "Infinity"
        ELSE IF whole = 0 /\ fraction = 0 THEN "NaN"
        ELSE IF ~zero /\ leadExponent > 308 THEN "Infinity"
        ELSE "finite"

\* Number.isFinite of what parseFloat gave.
parsedIsFinite(parsed) == parsed = "finite"

\* !value for a query parameter: null or the empty string.
paramIsFalsy(param) == param = <<>> \/ param[1] = <<>>

\* GET of the route, up to the cache lookup: the status it answers with,
\* 200 standing for "goes on to the lookup".
routeChecks(latParam, lngParam, tokenSet) ==
    IF paramIsFalsy(latParam) \/ paramIsFalsy(lngParam) THEN 400
    ELSE IF ~tokenSet THEN 500
    ELSE IF ~parsedIsFinite(parseFloat(latParam[1]))
              \/ ~parsedIsFinite(parseFloat(lngParam[1])) THEN 400
    ELSE 200

\* parseNumericParam of the proxy handler: TRUE when it gives null.
parseNumericParamIsNull(param) ==
    paramIsFalsy(param) \/ ~parsedIsFinite(parseFloat(param[1]))

\* GET of the proxy handler, up to the upstream request.
proxyChecks(latParam, lngParam, tokenSet) ==
    IF parseNumericParamIsNull(latParam) \/ parseNumericParamIsNull(lngParam)
    THEN 400
    ELSE IF ~tokenSet THEN 500
    ELSE 200

\* The values of a lat or lng parameter: absent, empty, not a number, a
\* number followed by text, infinite by name and by size, and numbers.
ParamSamples ==
    {<<>>,
     <<<<>>>>,
     <<<<"a", "b", "c">>>>,
     <<<<"4", "0", ".", "7", "5", "8", "x">>>>,
     <<<<"-", "I", "n", "f", "i", "n", "i", "t", "y">>>>,
     <<<<"1", "e", "9", "9", "9">>>>,
     <<<<" ", "4", "0", ".", "7", "5", "8">>>>,
     <<<<"-", "7", "3", ".", "9", "8", "5", "5">>>>,
     <<<<".", "5", "e", "-", "3">>>>}

noAnswer == [by |-> "none", status |-> 0]

ParamsInit ==
    /\ queryLat \in ParamSamples
    /\ queryLng \in ParamSamples
    /\ envToken \in BOOLEAN
    /\ answer = noAnswer

ParamsIdle ==
    /\ queryLat = <<>>
    /\ queryLng = <<>>
    /\ envToken = TRUE
    /\ answer = noAnswer

\* The route answers the request (or goes on to its cache lookup).
routeAnswers ==
    /\ answer' = [by |-> "route", status |-> routeChecks(queryLat, queryLng, envToken)]
    /\ UNCHANGED <<queryLat, queryLng, envToken>>

\* The proxy handler answers the request (or goes on to the upstream request).
proxyAnswers ==
    /\ answer' = [by |-> "proxy", status |-> proxyChecks(queryLat, queryLng, envToken)]
    /\ UNCHANGED <<queryLat, queryLng, envToken>>

-----------------------------------------------------------------------------
(* The derivation of cache keys: getCacheKey of the browser cache          *)
(* (part_000:25-35, with the prefix of line 131) and getKey of the         *)
(* file-backed cache (ComplaintMap.tsx:747-757), which the route reaches   *)
(* only with a finite bearing (route.ts:55-61).                            *)

\* Coordinates (in 1e-7 degrees) around the initial intersection: two that
\* agree to six decimals and one that does not.
KeyLatLngSamples ==
    {INITIAL_LAT_LNG,
     <<INITIAL_LAT_LNG[1] + 4, INITIAL_LAT_LNG[2] - 4>>,
     <<INITIAL_LAT_LNG[1] + 6, INITIAL_LAT_LNG[2]>>}

\* Bearings in hundredths of a degree, <<>> for NaN: the four the component
\* asks for, and bearings just below and above multiples of 360.
KeyBearingSamples ==
    {<<>>} \cup {<<b>> : b \in {0, 4, 6, 90 * 100, 180 * 100, 270 * 100,
                                360 * 100 - 6, 360 * 100 - 4, 360 * 100,
                                360 * 100 + 4, -4, -6, -360 * 100,
                                450 * 100, 720 * 100 - 4}}

\* One derivation: the key of the browser cache and, for a finite bearing,
\* the key of the file-backed cache.
keysOf(lat, lng, bearing) ==
    [lat |-> lat, lng |-> lng, bearing |-> bearing,
     cacheKey |-> CACHE_KEY_PREFIX \o getCacheKey(lat, lng, bearing),
     fileKey |-> IF bearing = <<>> THEN <<>>
                 ELSE <<getKey(lat, lng, serverNormalizeBearing(bearing[1]))>>]

KeyInit == keyed = <<>>

KeyIdle == keyed = <<>>

deriveKeys(latLng, bearing) ==
    keyed' = (IF keyed = <<>> THEN <<>> ELSE <<keyed[Len(keyed)]>>)
                 \o <<keysOf(latLng[1], latLng[2], bearing)>>

-----------------------------------------------------------------------------
(* Specifications: the navigation with the cache idle, and the cache with  *)
(* the walker standing where the page put it.                              *)

CacheIdle ==
    /\ hasWindow = TRUE
    /\ storageWorks = TRUE
    /\ persistentStorage = "undefined"
    /\ memoryCache = [k \in CacheKeys |-> <<>>]
    /\ localStorage = [k \in CacheKeys |-> <<>>]
    /\ now = 0
    /\ ticks = 0
    /\ writes = 0
    /\ lastCall = noCall

NavIdle ==
    /\ position = initialPositionFromMathRandom(<<1, 2>>, <<1, 2>>)
    /\ NavInit

NavNext ==
    \/ handleMoveForward /\ UNCHANGED <<cacheVars, selVars, fetchVars, imgVars, paramVars, keyVars, screenVars, fileVars>>
    \/ handleMoveBackward /\ UNCHANGED <<cacheVars, selVars, fetchVars, imgVars, paramVars, keyVars, screenVars, fileVars>>
    \/ handleTurn("left") /\ UNCHANGED <<cacheVars, selVars, fetchVars, imgVars, paramVars, keyVars, screenVars, fileVars>>
    \/ handleTurn("right") /\ UNCHANGED <<cacheVars, selVars, fetchVars, imgVars, paramVars, keyVars, screenVars, fileVars>>

CacheNext ==
    \/ \E req \in CacheRequests :
           getCachedStreetView(req) /\ UNCHANGED <<navVars, selVars, fetchVars, imgVars, paramVars, keyVars, screenVars, fileVars>>
    \/ \E req \in CacheRequests, payload \in PayloadSamples, throws \in BOOLEAN :
           /\ writes < MaxWrites
           /\ setCachedStreetView(req, payload, throws)
           /\ UNCHANGED <<navVars, selVars, fetchVars, imgVars, paramVars, keyVars, screenVars, fileVars>>
    \/ \E step \in ClockSteps :
           ClockAdvance(step) /\ UNCHANGED <<navVars, selVars, fetchVars, imgVars, paramVars, keyVars, screenVars, fileVars>>
    \/ PageLoad /\ UNCHANGED <<navVars, selVars, fetchVars, imgVars, paramVars, keyVars, screenVars, fileVars>>

StorageNext ==
    \/ \E req \in CacheRequests :
           getCachedStreetView(req) /\ UNCHANGED <<navVars, selVars, fetchVars, imgVars, paramVars, keyVars, screenVars, fileVars>>
    \/ \E step \in ClockSteps :
           ClockAdvance(step) /\ UNCHANGED <<navVars, selVars, fetchVars, imgVars, paramVars, keyVars, screenVars, fileVars>>
    \/ PageLoad /\ UNCHANGED <<navVars, selVars, fetchVars, imgVars, paramVars, keyVars, screenVars, fileVars>>

SharedNext ==
    \/ \E req \in CacheRequests :
           getCachedStreetView(req) /\ UNCHANGED <<navVars, selVars, fetchVars, imgVars, paramVars, keyVars, screenVars, fileVars>>
    \/ \E req \in CacheRequests, payload \in PayloadSamples :
           /\ writes < MaxWrites
           /\ setCachedStreetView(req, payload, FALSE)
           /\ UNCHANGED <<navVars, selVars, fetchVars, imgVars, paramVars, keyVars, screenVars, fileVars>>
    \/ \E req \in CacheRequests, payload \in PayloadSamples :
           /\ writes < MaxWrites
           /\ otherSessionWrites(req, payload)
           /\ UNCHANGED <<navVars, selVars, fetchVars, imgVars, paramVars, keyVars, screenVars, fileVars>>
    \/ \E step \in ClockSteps :
           ClockAdvance(step) /\ UNCHANGED <<navVars, selVars, fetchVars, imgVars, paramVars, keyVars, screenVars, fileVars>>

FaultyNext ==
    \/ \E req \in CacheRequests, getItemThrows \in BOOLEAN, removeItemThrows \in BOOLEAN :
           getCachedStreetViewOn(req, getItemThrows, removeItemThrows)
               /\ UNCHANGED <<navVars, selVars, fetchVars, imgVars, paramVars, keyVars, screenVars, fileVars>>
    \/ \E step \in ClockSteps :
           ClockAdvance(step) /\ UNCHANGED <<navVars, selVars, fetchVars, imgVars, paramVars, keyVars, screenVars, fileVars>>
    \/ PageLoad /\ UNCHANGED <<navVars, selVars, fetchVars, imgVars, paramVars, keyVars, screenVars, fileVars>>

FileNext ==
    \/ \E req \in FileRequests :
           fileCallStarts("get", req, <<>>) /\ UNCHANGED <<navVars, cacheVars, selVars, fetchVars, imgVars, paramVars, keyVars, screenVars>>
    \/ \E req \in FileRequests, payload \in PayloadSamples :
           fileCallStarts("set", req, <<payload>>) /\ UNCHANGED <<navVars, cacheVars, selVars, fetchVars, imgVars, paramVars, keyVars, screenVars>>
    \/ \E req \in FileRequests :
           fileCallStartsLoaded("get", req, <<>>) /\ UNCHANGED <<navVars, cacheVars, selVars, fetchVars, imgVars, paramVars, keyVars, screenVars>>
    \/ \E req \in FileRequests, payload \in PayloadSamples :
           fileCallStartsLoaded("set", req, <<payload>>) /\ UNCHANGED <<navVars, cacheVars, selVars, fetchVars, imgVars, paramVars, keyVars, screenVars>>
    \/ \E i \in 1..Len(fileCalls) :
           readFileCompletes(i) /\ UNCHANGED <<navVars, cacheVars, selVars, fetchVars, imgVars, paramVars, keyVars, screenVars>>
    \/ \E i \in 1..Len(fileCalls) :
           mkdirCompletes(i) /\ UNCHANGED <<navVars, cacheVars, selVars, fetchVars, imgVars, paramVars, keyVars, screenVars>>
    \/ \E i \in 1..Len(fileCalls) :
           writeFileCompletes(i) /\ UNCHANGED <<navVars, cacheVars, selVars, fetchVars, imgVars, paramVars, keyVars, screenVars>>
    \/ \E step \in FileClockSteps :
           fileClockAdvance(step) /\ UNCHANGED <<navVars, selVars, fetchVars, imgVars, paramVars, keyVars, screenVars>>

KeyNext ==
    \E latLng \in KeyLatLngSamples, bearing \in KeyBearingSamples :
        deriveKeys(latLng, bearing)
            /\ UNCHANGED <<navVars, cacheVars, selVars, fetchVars, imgVars, paramVars, screenVars, fileVars>>

SelectNext ==
    \/ fetchStreetViewSelects /\ UNCHANGED <<navVars, cacheVars, fetchVars, imgVars, paramVars, keyVars, screenVars, fileVars>>
    \/ routeSelects /\ UNCHANGED <<navVars, cacheVars, fetchVars, imgVars, paramVars, keyVars, screenVars, fileVars>>

FetchNext ==
    \/ \E req \in FetchRequests, signalAborted \in BOOLEAN :
           fetchStreetViewCall(req, signalAborted) /\ UNCHANGED <<navVars, selVars, imgVars, paramVars, keyVars, screenVars, fileVars>>
    \/ \E i \in 1..Len(calls) :
           fetchStreetViewAborted(i) /\ UNCHANGED <<navVars, selVars, imgVars, paramVars, keyVars, screenVars, fileVars>>
    \/ \E i \in 1..Len(calls), failure \in FetchFailures :
           fetchStreetViewFails(i, failure) /\ UNCHANGED <<navVars, selVars, imgVars, paramVars, keyVars, screenVars, fileVars>>
    \/ \E i \in 1..Len(calls), images \in FetchResponses, throws \in BOOLEAN :
           fetchStreetViewResponds(i, images, throws) /\ UNCHANGED <<navVars, selVars, imgVars, paramVars, keyVars, screenVars, fileVars>>
    \/ \E step \in FetchClockSteps :
           fetchClockAdvance(step) /\ UNCHANGED <<navVars, selVars, imgVars, paramVars, keyVars, screenVars, fileVars>>
    \/ fetchPageLoad /\ UNCHANGED <<navVars, selVars, imgVars, paramVars, keyVars, screenVars, fileVars>>

ImageryNext ==
    \/ keyPressed(handleMoveForward) /\ UNCHANGED <<cacheVars, selVars, fetchVars, paramVars, keyVars, screenVars, fileVars>>
    \/ keyPressed(handleMoveBackward) /\ UNCHANGED <<cacheVars, selVars, fetchVars, paramVars, keyVars, screenVars, fileVars>>
    \/ keyPressed(handleTurn("left")) /\ UNCHANGED <<cacheVars, selVars, fetchVars, paramVars, keyVars, screenVars, fileVars>>
    \/ keyPressed(handleTurn("right")) /\ UNCHANGED <<cacheVars, selVars, fetchVars, paramVars, keyVars, screenVars, fileVars>>
    \/ \E i \in 1..Len(fetches) :
           routeGET(i) /\ UNCHANGED <<navVars, cacheVars, selVars, fetchVars, paramVars, keyVars, screenVars, fileVars>>
    \/ \E i \in 1..Len(fetches) :
           routeUpstreamFails(i) /\ UNCHANGED <<navVars, cacheVars, selVars, fetchVars, paramVars, keyVars, screenVars, fileVars>>
    \/ \E i \in 1..Len(fetches), images \in ImageryResponses, throws \in BOOLEAN :
           routeUpstreamResponds(i, images, throws)
               /\ UNCHANGED <<navVars, cacheVars, selVars, fetchVars, paramVars, keyVars, screenVars, fileVars>>
    \/ \E i \in 1..Len(fetches) :
           fetchCompletes(i) /\ UNCHANGED <<navVars, cacheVars, selVars, fetchVars, paramVars, keyVars, screenVars, fileVars>>
    \/ \E i \in 1..Len(fetches) :
           fetchAborts(i) /\ UNCHANGED <<navVars, cacheVars, selVars, fetchVars, paramVars, keyVars, screenVars, fileVars>>

ComponentNext ==
    \/ keyPressed(handleMoveForward) /\ UNCHANGED <<cacheVars, selVars, fetchVars, paramVars, keyVars, screenVars, fileVars>>
    \/ keyPressed(handleMoveBackward) /\ UNCHANGED <<cacheVars, selVars, fetchVars, paramVars, keyVars, screenVars, fileVars>>
    \/ keyPressed(handleTurn("left")) /\ UNCHANGED <<cacheVars, selVars, fetchVars, paramVars, keyVars, screenVars, fileVars>>
    \/ keyPressed(handleTurn("right")) /\ UNCHANGED <<cacheVars, selVars, fetchVars, paramVars, keyVars, screenVars, fileVars>>
    \/ \E i \in 1..Len(fetches), response \in ComponentResponses :
           fetchAnswered(i, response)
               /\ UNCHANGED <<navVars, cacheVars, selVars, fetchVars, paramVars, keyVars, screenVars, fileVars>>
    \/ \E i \in 1..Len(fetches) :
           fetchAborts(i) /\ UNCHANGED <<navVars, cacheVars, selVars, fetchVars, paramVars, keyVars, screenVars, fileVars>>

ScreenNext ==
    \/ keyPressedOnScreen(handleMoveForward) /\ UNCHANGED <<cacheVars, selVars, fetchVars, paramVars, keyVars, fileVars>>
    \/ keyPressedOnScreen(handleMoveBackward) /\ UNCHANGED <<cacheVars, selVars, fetchVars, paramVars, keyVars, fileVars>>
    \/ keyPressedOnScreen(handleTurn("left")) /\ UNCHANGED <<cacheVars, selVars, fetchVars, paramVars, keyVars, fileVars>>
    \/ keyPressedOnScreen(handleTurn("right")) /\ UNCHANGED <<cacheVars, selVars, fetchVars, paramVars, keyVars, fileVars>>
    \/ \E i \in 1..Len(fetches), response \in ComponentResponses :
           fetchAnswered(i, response)
               /\ UNCHANGED <<navVars, cacheVars, selVars, fetchVars, paramVars, keyVars, screenVars, fileVars>>
    \/ \E i \in 1..Len(fetches) :
           fetchAborts(i) /\ UNCHANGED <<navVars, cacheVars, selVars, fetchVars, paramVars, keyVars, screenVars, fileVars>>
    \/ renders /\ UNCHANGED <<cacheVars, selVars, fetchVars, paramVars, keyVars, fileVars>>
    \/ effectsRun /\ UNCHANGED <<cacheVars, selVars, fetchVars, paramVars, keyVars, fileVars>>
    \/ \E interval \in intervals :
           intervalElapses(interval) /\ UNCHANGED <<cacheVars, selVars, fetchVars, paramVars, keyVars, fileVars>>
    \/ \E interval \in intervals :
           intervalFires(interval) /\ UNCHANGED <<cacheVars, selVars, fetchVars, paramVars, keyVars, fileVars>>

ParamsNext ==
    \/ routeAnswers /\ UNCHANGED <<navVars, cacheVars, selVars, fetchVars, imgVars, keyVars, screenVars, fileVars>>
    \/ proxyAnswers /\ UNCHANGED <<navVars, cacheVars, selVars, fetchVars, imgVars, keyVars, screenVars, fileVars>>

InitNav == FileIdle /\ ScreenIdle /\ KeyIdle /\ ParamsIdle /\ CacheIdle /\ SelectIdle /\ FetchIdle /\ ImageryIdle /\ NavInit

InitCache == FileIdle /\ ScreenIdle /\ KeyIdle /\ ParamsIdle /\ NavIdle /\ SelectIdle /\ FetchIdle /\ ImageryIdle /\ CacheInit

InitStorage == FileIdle /\ ScreenIdle /\ KeyIdle /\ ParamsIdle /\ NavIdle /\ SelectIdle /\ FetchIdle /\ ImageryIdle /\ StorageInit

InitShared ==
    /\ hasWindow = TRUE
    /\ storageWorks = TRUE
    /\ FileIdle /\ ScreenIdle /\ KeyIdle /\ ParamsIdle /\ NavIdle /\ SelectIdle /\ FetchIdle /\ ImageryIdle /\ CacheInit

InitFile ==
    ScreenIdle /\ KeyIdle /\ ParamsIdle /\ NavIdle /\ CacheIdle /\ SelectIdle /\ FetchIdle /\ ImageryIdle /\ FileInit

InitKey ==
    FileIdle /\ ScreenIdle /\ ParamsIdle /\ NavIdle /\ CacheIdle /\ SelectIdle /\ FetchIdle /\ ImageryIdle /\ KeyInit

InitSelect == FileIdle /\ ScreenIdle /\ KeyIdle /\ ParamsIdle /\ NavIdle /\ CacheIdle /\ FetchIdle /\ ImageryIdle /\ SelectInit

InitFetch == FileIdle /\ ScreenIdle /\ KeyIdle /\ ParamsIdle /\ NavIdle /\ SelectIdle /\ ImageryIdle /\ CacheInit /\ FetchInit

InitImagery == FileIdle /\ ScreenIdle /\ KeyIdle /\ ParamsIdle /\ CacheIdle /\ SelectIdle /\ FetchIdle /\ ImageryInit

InitComponent == serverToken = TRUE /\ InitImagery

InitScreen == serverToken = TRUE /\ ScreenInit /\ FileIdle /\ KeyIdle /\ ParamsIdle /\ CacheIdle /\ SelectIdle /\ FetchIdle /\ ImageryInit


InitParams ==
    FileIdle /\ ScreenIdle /\ KeyIdle /\ NavIdle /\ CacheIdle /\ SelectIdle /\ FetchIdle /\ ImageryIdle /\ ParamsInit

SpecNav == InitNav /\ [][NavNext]_vars

SpecCache == InitCache /\ [][CacheNext]_vars

SpecStorage == InitStorage /\ [][StorageNext]_vars

SpecShared == InitShared /\ [][SharedNext]_vars

SpecFaulty == InitStorage /\ [][FaultyNext]_vars

SpecFile == InitFile /\ [][FileNext]_vars

SpecKey == InitKey /\ [][KeyNext]_vars

SpecSelect == InitSelect /\ [][SelectNext]_vars

SpecFetch == InitFetch /\ [][FetchNext]_vars

SpecImagery == InitImagery /\ [][ImageryNext]_vars

SpecComponent == InitComponent /\ [][ComponentNext]_vars

SpecScreen == InitScreen /\ [][ScreenNext]_vars

SpecParams == InitParams /\ [][ParamsNext]_vars

-----------------------------------------------------------------------------
(* The claims about navigation and the grid, stated with the bounds, unit  *)
(* vectors, opposites and rotation order written out as the specification  *)
(* gives them.                                                             *)

ClaimInBounds(p) == p.street \in -25..55 /\ p.avenue \in -6..6

ClaimUnit(h) ==
    CASE h = "north" -> [street |-> 1, avenue |-> 0]
      [] h = "south" -> [street |-> -1, avenue |-> 0]
      [] h = "east"  -> [street |-> 0, avenue |-> 1]
      [] h = "west"  -> [street |-> 0, avenue |-> -1]

ClaimAhead(p, h) ==
    [street |-> p.street + ClaimUnit(h).street,
     avenue |-> p.avenue + ClaimUnit(h).avenue]

ClaimOpposite(h) ==
    CASE h = "north" -> "south" [] h = "south" -> "north"
      [] h = "east" -> "west"   [] h = "west" -> "east"

ClaimRightOf(h) ==
    CASE h = "north" -> "east" [] h = "east" -> "south"
      [] h = "south" -> "west" [] h = "west" -> "north"

ClaimLeftOf(h) == CHOOSE g \in Headings : ClaimRightOf(g) = h

ClaimOneBlockApart(p, q) ==
    Abs(p.street - q.street) + Abs(p.avenue - q.avenue) = 1

\* C1: after any sequence of moveForward, moveBackward, turnLeft and turnRight
\* from the initial state the stored position has -25 <= street <= 55 and
\* -6 <= avenue <= 6.
C1_PositionWithinBounds == ClaimInBounds(position)

\* C1, the part that holds: no handler stores an out-of-bounds candidate; a
\* step that changes the position stores an in-bounds one.
C1_HandlersStoreInBoundsOnly ==
    [][position' # position => ClaimInBounds(position')]_navVars

\* C2: the initial state has heading north and a position inside the grid
\* bounds, for every value the random source can produce.
C2_InitialStateInBounds ==
    lastOp.op = "init" => (heading = "north" /\ ClaimInBounds(position))

\* C3: a moveForward whose candidate (position + unit vector of the heading) is
\* in bounds sets position to exactly that candidate, one block away, leaves
\* the heading unchanged and sets the status line to the moving message that
\* names the intersection of the new position.
C3_MoveForwardOpen ==
    [][(lastOp'.op = "moveForward" /\ ClaimInBounds(ClaimAhead(position, heading)))
         => /\ position' = ClaimAhead(position, heading)
            /\ ClaimOneBlockApart(position, position')
            /\ heading' = heading
            /\ statusLine' = rollingStatus(heading, position')]_navVars

C3_Witness ==
    /\ lastOp.op = "moveForward"
    /\ ClaimInBounds(ClaimAhead(lastOp.position, lastOp.heading))
    /\ position = ClaimAhead(lastOp.position, lastOp.heading)
    /\ statusLine = rollingStatus(heading, position)

\* C4: every moveForward or moveBackward whose candidate is out of bounds
\* leaves position and heading unchanged and sets the status line to the
\* blocked message that names the attempted direction.
C4_BlockedMoveReported ==
    [][/\ (lastOp'.op = "moveForward"
             /\ ~ClaimInBounds(ClaimAhead(position, heading)))
          => /\ position' = position
             /\ heading' = heading
             /\ statusLine' = cantHeadStatus(heading)
       /\ (lastOp'.op = "moveBackward"
             /\ ~ClaimInBounds(ClaimAhead(position, ClaimOpposite(heading))))
          => /\ position' = position
             /\ heading' = heading
             /\ statusLine' = cantBackStatus(ClaimOpposite(heading))]_navVars

C4_Witness ==
    /\ lastOp.op = "moveForward"
    /\ lastOp.heading = "north"
    /\ lastOp.position.street = 55
    /\ lastOp.before.op = "moveForward"
    /\ lastOp.before.position.street = 54
    /\ position = lastOp.position
    /\ heading = "north"
    /\ statusLine = cantHeadStatus("north")

\* C5: moveBackward makes the bounds check and the one-block move of
\* moveForward along the heading opposite to the current one, never changes
\* the heading, and its status message names the reverse direction.
C5_MoveBackwardOpposite ==
    [][lastOp'.op = "moveBackward"
         => LET reverse == ClaimOpposite(heading)
                candidate == ClaimAhead(position, reverse)
            IN  /\ heading' = heading
                /\ IF ClaimInBounds(candidate)
                   THEN /\ position' = candidate
                        /\ statusLine' = rollingStatus(reverse, candidate)
                   ELSE /\ position' = position
                        /\ statusLine' = cantBackStatus(reverse)]_navVars

C5_Witness ==
    /\ lastOp.op = "moveBackward"
    /\ heading = "east"
    /\ lastOp.heading = "east"
    /\ position = ClaimAhead(lastOp.position, "west")
    /\ statusLine = rollingStatus("west", position)

\* C6: a turn rotates the heading by exactly one step in the cyclic order
\* north, east, south, west (right) or against it (left); then, with the new
\* heading, if the adjacent block is out of bounds only the heading changes and
\* the status reports the block, otherwise the position also advances exactly
\* one block in the new heading.
C6_TurnRotatesThenMoves ==
    [][lastOp'.op \in {"turnLeft", "turnRight"}
         => LET nextHeading == IF lastOp'.op = "turnRight"
                               THEN ClaimRightOf(heading)
                               ELSE ClaimLeftOf(heading)
                candidate == ClaimAhead(position, nextHeading)
            IN  /\ heading' = nextHeading
                /\ IF ClaimInBounds(candidate)
                   THEN /\ position' = candidate
                        /\ ClaimOneBlockApart(position, position')
                   ELSE /\ position' = position
                        /\ statusLine' = facingStatus(nextHeading)]_navVars

\* A turn that advanced, followed by a turn that was blocked.
C6_Witness ==
    /\ lastOp.op = "turnRight"
    /\ heading = ClaimRightOf(lastOp.heading)
    /\ position = lastOp.position
    /\ statusLine = facingStatus(heading)
    /\ lastOp.before.op = "turnRight"
    /\ lastOp.heading = ClaimRightOf(lastOp.before.heading)
    /\ lastOp.position = ClaimAhead(lastOp.before.position, lastOp.heading)

\* C7: from any heading four consecutive turnRight calls restore the original
\* heading, likewise four turnLeft calls, and a turnLeft followed by a
\* turnRight restores the heading.
C7_HeadingFourCycle ==
    /\ (lastOp.op \in {"turnLeft", "turnRight"} /\ run.count = 4)
          => heading = run.heading
    /\ (lastOp.op = "turnRight" /\ lastOp.before.op = "turnLeft")
          => heading = lastOp.before.heading

C7_Witness ==
    /\ lastOp.op = "turnRight"
    /\ run.count = 4
    /\ run.heading = "south"
    /\ heading = "south"

\* C8: for every in-bounds position and heading where the forward block is in
\* bounds, moveForward followed by moveBackward restores the original position
\* and leaves the heading as it was.
C8_ForwardBackwardCancel ==
    (/\ lastOp.op = "moveBackward"
     /\ lastOp.before.op = "moveForward"
     /\ ClaimInBounds(lastOp.before.position)
     /\ ClaimInBounds(ClaimAhead(lastOp.before.position, lastOp.before.heading)))
       => /\ position = lastOp.before.position
          /\ heading = lastOp.before.heading

C8_Witness ==
    /\ lastOp.op = "moveBackward"
    /\ lastOp.before.op = "moveForward"
    /\ ClaimInBounds(lastOp.before.position)
    /\ lastOp.position = ClaimAhead(lastOp.before.position, lastOp.before.heading)
    /\ position = lastOp.before.position
    /\ heading = lastOp.before.heading

\* C9: for every in-bounds grid position p,
\* computeGridFromLatLng(computeLatLngFromGrid(p)) is p: never null, never a
\* neighbouring block.
C9_RoundTrip ==
    ClaimInBounds(position)
       => /\ memo.rawIntersectionLatLng = computeLatLngFromGrid(position)
          /\ memo.snappedGrid = <<position>>

C9_Witness ==
    /\ lastOp.op # "init"
    /\ position = [street |-> -25, avenue |-> 6]
    /\ memo.snappedGrid = <<position>>

-----------------------------------------------------------------------------
(* The claims about the cache                                              *)

ClaimSevenDaysMs == 7 * 24 * 60 * 60 * 1000

\* C10: for any sequence of cache writes, reads and clock advances, a read
\* never returns an entry whose age (now - cachedAt) exceeds 7 days, from
\* either tier; and a read of a key whose entry has an age of at most 7 days
\* and has not been overwritten or removed returns that entry's payload.
C10_TtlNeverServedStale ==
    /\ (lastCall.op = "get" /\ lastCall.returned # <<>>)
          => /\ lastCall.served # <<>>
             /\ lastCall.returned = <<lastCall.served[1].payload>>
             /\ now - lastCall.served[1].cachedAt <= ClaimSevenDaysMs
    /\ (/\ lastCall.op = "get"
        /\ lastCall.found # <<>>
        /\ now - lastCall.found[1].cachedAt <= ClaimSevenDaysMs)
          => lastCall.returned = <<lastCall.found[1].payload>>

\* An entry exactly 7 days old, read back from localStorage after a page load.
C10_Witness ==
    /\ lastCall.op = "get"
    /\ lastCall.found # <<>>
    /\ now - lastCall.found[1].cachedAt = ClaimSevenDaysMs
    /\ lastCall.returned = <<lastCall.found[1].payload>>
    /\ lastCall.returned # <<EmptyPayload>>
    /\ writes = 1
    /\ memoryCache[lastCall.key] = lastCall.found
    /\ localStorage[lastCall.key] = <<JSONstringify(lastCall.found[1])>>

\* An entry 7 days and 1 ms old: the read finds it, returns nothing and leaves
\* neither tier holding it.
C10_ExpiredRead ==
    /\ lastCall.op = "get"
    /\ lastCall.found # <<>>
    /\ now - lastCall.found[1].cachedAt = ClaimSevenDaysMs + 1
    /\ lastCall.returned = <<>>
    /\ memoryCache[lastCall.key] = <<>>
    /\ localStorage[lastCall.key] = <<>>

-----------------------------------------------------------------------------
(* The claims about the frame selector.  The claims speak of degrees; the  *)
(* model's angles are hundredths of a degree.                              *)

\* The circular distance of two angles: the least |a - b + 360k|.
ClaimCircularDistance(a, b) ==
    LET turns == {Abs(a - b + 360 * 100 * k) : k \in -2..2}
    IN  CHOOSE m \in turns : \A x \in turns : m <= x

\* min(d, 360 - d) with d = |a - b| mod 360.
ClaimFoldedDifference(a, b) ==
    LET d == Abs(a - b) % (360 * 100)
    IN  IF d <= 360 * 100 - d THEN d ELSE 360 * 100 - d

\* Angles from -370 to 371.2 degrees, 74.12 degrees apart.
ClaimAngles == {-(370 * 100) + 7412 * k : k \in 0..10}

\* The bearing asked of the selector that ran is a finite number.
ClaimBearingKnown ==
    \/ selOut.by = "fetchStreetView" /\ selBearing # <<>>
    \/ selOut.by = "GET" /\ selHasParam /\ selBearing # <<>>

\* The first of the three thumbnails an upstream image has.
ClaimThumbnail(image) ==
    IF image.thumb_2048_url # <<>> THEN image.thumb_2048_url
    ELSE IF image.thumb_1024_url # <<>> THEN image.thumb_1024_url
    ELSE image.thumb_512_url

\* C17: in the returned payload, images[preferredIndex] is the first frame
\* in response order whose bearing difference to the target bearing is
\* minimal among all returned frames, also when candidates without a
\* thumbnail were dropped ahead of it; compass angles [10, 90, 200] with
\* bearing 0 give preferredIndex 0.
C17_PreferredIsFirstClosest ==
    (selOut.by # "none" /\ ClaimBearingKnown) =>
        LET payload == selOut.payload[1]
            frames == payload.images
            target == selBearing[1] % (360 * 100)
            p == payload.preferredIndex + 1
            far(i) == frames[i].compassAngle = <<>>
            d(i) == ClaimCircularDistance(frames[i].compassAngle[1], target)
            closer(i, j) == ~far(i) /\ (far(j) \/ d(i) < d(j))
        IN  /\ frames # <<>> =>
                  /\ p \in 1..Len(frames)
                  /\ \A j \in 1..Len(frames) :
                         /\ ~closer(j, p)
                         /\ j < p => closer(p, j)
            /\ (/\ Len(selImages) = 3
                /\ selBearing = <<0>>
                /\ \A i \in 1..3 : ClaimThumbnail(selImages[i]) # <<>>
                /\ [i \in 1..3 |-> selImages[i].compass_angle]
                       = <<(<<10 * 100>>), (<<90 * 100>>), (<<200 * 100>>)>>)
                  => payload.preferredIndex = 0

\* The preferred frame is the third image of the response and the second
\* frame: the first image had no thumbnail, the second is further away.
C17_Witness ==
    /\ selOut.by = "GET"
    /\ ClaimBearingKnown
    /\ Len(selImages) = 3
    /\ ClaimThumbnail(selImages[1]) = <<>>
    /\ Len(selOut.payload[1].images) = 2
    /\ selOut.payload[1].preferredIndex = 1
    /\ selOut.payload[1].images[2].id = selImages[3].id

\* C18: normalizeBearingDifference(a, b) is the circular distance between
\* the two angles: it equals min(d, 360 - d) with d = |a - b| mod 360, lies
\* in [0, 180], is symmetric in its arguments, and gives
\* difference(10, 350) = 20 and difference(0, 180) = 180.  (The sweep over
\* ClaimAngles does not depend on the response: it is evaluated in the
\* states of the empty response.)
C18_CircularDistance ==
    selOut.by # "none" =>
        LET used == {image.compass_angle[1] :
                        image \in {selImages[i] : i \in 1..Len(selImages)}
                                     \cap {im \in UpstreamImageSamples :
                                              im.compass_angle # <<>>}}
            asked == {b[1] : b \in {selOut.normalizedBearing} \ {<<>>}}
            holdsFor(a, b) ==
                /\ normalizeBearingDifference(a, b) = ClaimCircularDistance(a, b)
                /\ normalizeBearingDifference(a, b) = ClaimFoldedDifference(a, b)
                /\ normalizeBearingDifference(a, b) \in 0..(180 * 100)
                /\ normalizeBearingDifference(a, b) = normalizeBearingDifference(b, a)
        IN  /\ \A a \in used, b \in asked : holdsFor(a, b)
            /\ selImages = <<>> =>
                  \A a \in ClaimAngles, b \in ClaimAngles : holdsFor(a, b)
            /\ normalizeBearingDifference(10 * 100, 350 * 100) = 20 * 100
            /\ normalizeBearingDifference(0, 180 * 100) = 180 * 100

\* A candidate more than half a turn away from the bearing by subtraction:
\* compass angle 350 for bearing 0 is 10 away.
C18_Witness ==
    /\ selOut.by = "fetchStreetView"
    /\ selOut.normalizedBearing = <<0>>
    /\ \E i \in 1..Len(selOut.payload[1].images) :
          /\ selOut.payload[1].images[i].compassAngle = <<350 * 100>>
          /\ selOut.payload[1].preferredIndex = i - 1

C20_UnknownBearingPrefersFirst ==
    (/\ selOut.by # "none"
     /\ \/ ~ClaimBearingKnown
        \/ \A i \in 1..Len(selOut.payload[1].images) :
               selOut.payload[1].images[i].compassAngle = <<>>)
        => selOut.payload[1].preferredIndex = 0

\* The same for the route alone.
C20_RouteUnknownBearingPrefersFirst ==
    (/\ selOut.by = "GET"
     /\ \/ ~ClaimBearingKnown
        \/ \A i \in 1..Len(selOut.payload[1].images) :
               selOut.payload[1].images[i].compassAngle = <<>>)
        => selOut.payload[1].preferredIndex = 0

-----------------------------------------------------------------------------
(* The claims about fetchStreetView and the payloads it hands out.         *)

\* A payload's preferredIndex is within its frames, or 0 when it has none.
ClaimIndexInRange(payload) ==
    IF Len(payload.images) = 0
    THEN payload.preferredIndex = 0
    ELSE payload.preferredIndex \in 0..(Len(payload.images) - 1)

\* C11: an empty payload (zero frames, preferredIndex 0) is cached like any
\* other: after a lookup resolves to an empty result for a key, a second
\* lookup for the same key within the TTL (7 days) returns the empty payload
\* from the cache and performs no upstream request.  (The second lookup is
\* one whose signal is not aborted, made in the browser while the empty
\* result has not been overwritten and, after a page load, was kept by
\* localStorage.)
C11_EmptyPayloadCached ==
    (/\ lastSettled.stage # "none"
     /\ lastSettled.error # "AbortError"
     /\ lastSettled.emptyAge # <<>>
     /\ lastSettled.emptyAge[1] <= ClaimSevenDaysMs)
        => /\ lastSettled.stage = "resolved"
           /\ lastSettled.result = <<[images |-> <<>>, preferredIndex |-> 0]>>
           /\ ~lastSettled.requested
           /\ \A i \in 1..Len(calls) :
                  (/\ calls[i].stage = "fetching"
                   /\ calls[i].emptyAge # <<>>)
                      => calls[i].emptyAge[1] > ClaimSevenDaysMs

\* A lookup resolved empty; exactly 7 days later, after a page load, a
\* second lookup for the key returns the empty payload without a request.
C11_Witness ==
    /\ lastSettled.stage = "resolved"
    /\ lastSettled.emptyAge = <<ClaimSevenDaysMs>>
    /\ lastSettled.result = <<EmptyPayload>>
    /\ ~lastSettled.requested
    /\ Len(calls) = 2
    /\ persistentStorage = "localStorage"
    /\ lastCall.op = "get"
    /\ lastCall.found # <<>>
    /\ memoryCache[lastSettled.key] # <<>>

\* C16: every payload produced by the selector or returned from the cache
\* has preferredIndex in [0, len(images)-1] when images is non-empty and
\* preferredIndex = 0 when images is empty.
C16_PreferredIndexInRange ==
    /\ lastSettled.stage = "resolved" => ClaimIndexInRange(lastSettled.result[1])
    /\ \A k \in CacheKeys :
          /\ memoryCache[k] # <<>> => ClaimIndexInRange(memoryCache[k][1].payload)
          /\ localStorage[k] # <<>> =>
                 ClaimIndexInRange(storedEntry(localStorage[k][1]).payload)

\* A payload of two frames that prefers the second, returned from the cache.
C16_Witness ==
    /\ lastSettled.stage = "resolved"
    /\ ~lastSettled.requested
    /\ lastCall.op = "get"
    /\ lastCall.returned = lastSettled.result
    /\ Len(lastSettled.result[1].images) = 2
    /\ lastSettled.result[1].preferredIndex = 1

-----------------------------------------------------------------------------
(* The claims about the imagery fetches of a session.                      *)

\* The fetches whose promise chain has not settled and that are not cancelled.
ClaimLiveFetches ==
    {i \in 1..Len(fetches) :
        fetches[i].client = "pending" /\ ~fetches[i].cancelled}

\* C12: at every moment at most one fetch that has not been cancelled is
\* outstanding: every fetch but the one started last has its cancelled flag
\* set (its signal aborted) from the step on in which its successor starts.
C12_AtMostOneLiveFetch ==
    /\ Cardinality(ClaimLiveFetches) <= 1
    /\ \A i \in 1..Len(fetches) : i < Len(fetches) => fetches[i].cancelled

\* C12 witness: a second fetch was started while the first was outstanding;
\* the first is cancelled and still unsettled, the second is live.
C12_Witness ==
    /\ Len(fetches) = 2
    /\ fetches[1].cancelled /\ fetches[1].client = "pending"
    /\ ClaimLiveFetches = {2}

\* C13: a fetch that is cancelled before it completes never performs a
\* cache write: no cache write is made for a fetch whose cancelled flag is
\* set.
C13_CancelledNeverWrites ==
    lastWrite.fetch # 0 => ~lastWrite.cancelled

\* C14: the completion of a cancelled fetch leaves the frame list, the frame
\* index, the loading flag and the error message as they were (so it
\* surfaces no error), and a completion that changes any of them is that of
\* the fetch started last, the one for the current position and heading.
C14_CancelledCompletionIsSilent ==
    lastCompletion.fetch # 0 =>
        /\ lastCompletion.cancelled =>
               lastCompletion.after = lastCompletion.before
        /\ lastCompletion.after # lastCompletion.before =>
               /\ lastCompletion.fetch = Len(fetches)
               /\ lastCompletion.lat = memo.intersectionLatLng[1]
               /\ lastCompletion.lng = memo.intersectionLatLng[2]
               /\ lastCompletion.bearing = headingBearings[heading] * 100

\* C14 witness: a cancelled fetch has just completed while its successor
\* is still loading.
C14_Witness ==
    /\ lastCompletion.fetch # 0
    /\ lastCompletion.cancelled
    /\ lastCompletion.fetch < Len(fetches)
    /\ isStreetImageLoading
    /\ fetches[Len(fetches)].client = "pending"

\* Where a handler leaves the walker according to the navigation rules.
ClaimMoved(p, h) == IF ClaimInBounds(ClaimAhead(p, h)) THEN ClaimAhead(p, h) ELSE p

ClaimTarget(op) ==
    CASE op = "moveForward" ->
             [position |-> ClaimMoved(position, heading), heading |-> heading]
      [] op = "moveBackward" ->
             [position |-> ClaimMoved(position, ClaimOpposite(heading)),
              heading |-> heading]
      [] op = "turnLeft" ->
             [position |-> ClaimMoved(position, ClaimLeftOf(heading)),
              heading |-> ClaimLeftOf(heading)]
      [] op = "turnRight" ->
             [position |-> ClaimMoved(position, ClaimRightOf(heading)),
              heading |-> ClaimRightOf(heading)]

ClaimReaches(op) ==
    /\ position' = ClaimTarget(op).position
    /\ heading' = ClaimTarget(op).heading

\* C15: navigation is never blocked by imagery: in every reachable state
\* (with room left for one more fetch), whatever the fetches are doing, each
\* of the four handlers can run, and running it is one step that leaves the
\* position and the heading where the navigation rules alone put them.
C15_NavigationNeverBlocked ==
    Len(fetches) < MaxFetches =>
        /\ ENABLED (keyPressed(handleMoveForward) /\ ClaimReaches("moveForward"))
        /\ ~ENABLED (keyPressed(handleMoveForward) /\ ~ClaimReaches("moveForward"))
        /\ ENABLED (keyPressed(handleMoveBackward) /\ ClaimReaches("moveBackward"))
        /\ ~ENABLED (keyPressed(handleMoveBackward) /\ ~ClaimReaches("moveBackward"))
        /\ ENABLED (keyPressed(handleTurn("left")) /\ ClaimReaches("turnLeft"))
        /\ ~ENABLED (keyPressed(handleTurn("left")) /\ ~ClaimReaches("turnLeft"))
        /\ ENABLED (keyPressed(handleTurn("right")) /\ ClaimReaches("turnRight"))
        /\ ~ENABLED (keyPressed(handleTurn("right")) /\ ~ClaimReaches("turnRight"))

\* C15 witness: a handler has run while the fetch of the current state was
\* outstanding, and there is room for one more fetch.
C15_Witness ==
    /\ lastOp.op \in {"moveForward", "moveBackward", "turnLeft", "turnRight"}
    /\ Len(fetches) < MaxFetches
    /\ Len(fetches) > 0
    /\ fetches[Len(fetches)].client = "pending"
    /\ isStreetImageLoading

-----------------------------------------------------------------------------
(* The claims about the answers of the /api/streetview handlers.           *)

\* A lat or lng parameter that is missing or is not a finite number.
ClaimBadCoordinate(param) ==
    param = <<>> \/ param[1] = <<>> \/ parseFloat(param[1]) # "finite"

\* C21: every request whose lat or lng is missing or does not parse to a
\* finite number is answered with 400, whether or not the access token is
\* configured.
C21_BadCoordinatesAnswered400 ==
    (answer.by # "none" /\ (ClaimBadCoordinate(queryLat) \/ ClaimBadCoordinate(queryLng)))
        => answer.status = 400

\* C21, proxy handler only: it answers 400 to such a request, token or not.
C21_ProxyBadCoordinatesAnswered400 ==
    (answer.by = "proxy" /\ (ClaimBadCoordinate(queryLat) \/ ClaimBadCoordinate(queryLng)))
        => answer.status = 400

\* The route reports an upstream failure to fetch i in this step.
ClaimUpstreamFailureReported(i) ==
    /\ i <= Len(fetches')
    /\ fetches[i].server = "upstream"
    /\ fetches'[i].response = <<errorResponse(502)>>

\* The promise chain of fetch i settles in this step with an error response.
ClaimErrorResponseSettles(i) ==
    /\ i <= Len(fetches')
    /\ fetches[i].client = "pending"
    /\ fetches'[i].client = "settled"
    /\ ~fetches[i].cancelled
    /\ fetches[i].response # <<>>
    /\ ~fetches[i].response[1].ok

\* C22: an upstream network failure or non-success status is answered 502
\* by the route without creating or changing a cache entry (so a later
\* lookup of the key finds what it would have found before and, nothing
\* being cached, asks upstream again), and the component shows the error
\* response as the unavailability message with no frames.
C22_UpstreamFailureNotCached ==
    [][\A i \in 1..Len(fetches) :
          /\ ClaimUpstreamFailureReported(i) =>
                 /\ cacheStore' = cacheStore
                 /\ lastWrite' = noWrite
          /\ ClaimErrorResponseSettles(i) =>
                 /\ streetImageError' = <<"Mapillary imagery unavailable right now.">>
                 /\ streetFrames' = <<>>
                 /\ currentFrameIndex' = 0
                 /\ ~isStreetImageLoading']_vars

\* C22, fetchStreetView: a call rejected because its upstream request failed
\* leaves both tiers of the browser cache as they were.
C22_FetchStreetViewFailureNotCached ==
    [][(lastSettled'.stage = "rejected" /\ lastSettled'.error \in FetchFailures)
          => (memoryCache' = memoryCache /\ localStorage' = localStorage)]_vars

\* C22 witness: the fetch of the current state has failed upstream and the
\* component shows the message; nothing is cached.
C22_Witness ==
    /\ serverToken
    /\ lastCompletion.fetch = Len(fetches)
    /\ streetImageError = <<"Mapillary imagery unavailable right now.">>
    /\ cacheStore = {}

\* C23: every lookup made while the upstream credentials are missing fails
\* with the configuration error, whether or not the key has an unexpired
\* cache entry (a lookup whose signal is already aborted fails as aborted).
C23_NoTokenFailsWithConfigurationError ==
    (/\ lastSettled.stage # "none"
     /\ ~accessToken
     /\ lastSettled.error # "AbortError")
        => /\ lastSettled.stage = "rejected"
           /\ lastSettled.error
                  = "Street imagery unavailable. No access token configured."

\* C23, route only: a request that reaches the route while its token is
\* missing is answered 500, and the cache is neither read nor written.
C23_RouteNoTokenAnswers500 ==
    [][\A i \in 1..Len(fetches) :
          (/\ ~serverToken
           /\ i <= Len(fetches')
           /\ fetches[i].server = "unsent"
           /\ fetches'[i].server # "unsent")
              => /\ fetches'[i].server = "responded"
                 /\ fetches'[i].response \in {<<>>, <<errorResponse(500)>>}
                 /\ cacheStore' = cacheStore
                 /\ lastWrite' = noWrite]_vars

-----------------------------------------------------------------------------
(* Claims about the two tiers of the browser cache.                        *)

\* The entry a stored item holds when it passes for one: a non-empty string
\* that parses to an object of the current version with a numeric cachedAt
\* and an object payload.
ClaimValidItem(item) ==
    /\ item # <<>>
    /\ ~item[1].empty
    /\ item[1].json # <<>>
    /\ item[1].json[1].object
    /\ item[1].json[1].version = <<CACHE_VERSION>>
    /\ item[1].json[1].cachedAt # <<>>
    /\ item[1].json[1].payload # <<>>

ClaimItemAge(item) == now - item[1].json[1].cachedAt[1]

\* C24: a read that finds the key in tier 1 with an entry older than seven
\* days removes the key from tier 1 and from tier 2 and returns null; a read
\* that finds a tier-1 entry not older than that returns its payload, leaves
\* both tiers as they were and does not even obtain the storage handle.
C24_Tier1ReadDecides ==
    (lastCall.op = "get" /\ lastCall.tier1[lastCall.key] # <<>>)
        => IF now - lastCall.tier1[lastCall.key][1].cachedAt > ClaimSevenDaysMs
           THEN /\ lastCall.returned = <<>>
                /\ memoryCache[lastCall.key] = <<>>
                /\ localStorage[lastCall.key] = <<>>
           ELSE /\ lastCall.returned = <<lastCall.tier1[lastCall.key][1].payload>>
                /\ memoryCache = lastCall.tier1
                /\ localStorage = lastCall.tier2
                /\ persistentStorage = lastCall.handle

\* An expired tier-1 entry whose key was also in tier 2 has just been read.
C24_Witness ==
    /\ lastCall.op = "get"
    /\ lastCall.tier1[lastCall.key] # <<>>
    /\ now - lastCall.tier1[lastCall.key][1].cachedAt > ClaimSevenDaysMs
    /\ lastCall.tier2[lastCall.key] # <<>>
    /\ localStorage[lastCall.key] = <<>>

\* An unexpired tier-1 entry has just been read in a page that has not
\* touched its storage yet.
C24_WitnessUnexpired ==
    /\ lastCall.op = "get"
    /\ lastCall.tier1[lastCall.key] # <<>>
    /\ lastCall.returned # <<>>

\* C25: a read that misses tier 1 and finds in tier 2 a valid entry of the
\* current version not older than seven days returns its payload and puts the
\* entry, with the cachedAt it was stored with, into tier 1; tier 2 stays as
\* it was.
C25_Tier2HitIsPromoted ==
    (/\ lastCall.op = "get"
     /\ lastCall.tier1[lastCall.key] = <<>>
     /\ ClaimValidItem(lastCall.tier2[lastCall.key])
     /\ ClaimItemAge(lastCall.tier2[lastCall.key]) <= ClaimSevenDaysMs)
        => LET stored == lastCall.tier2[lastCall.key][1].json[1]
           IN  /\ lastCall.returned = stored.payload
               /\ memoryCache[lastCall.key] # <<>>
               /\ memoryCache[lastCall.key][1].payload = stored.payload[1]
               /\ memoryCache[lastCall.key][1].cachedAt = stored.cachedAt[1]
               /\ localStorage = lastCall.tier2

\* C25, second half: the read that follows a promoting read of the key is
\* served from tier 1 (C24 says what such a read does).
C25_NextReadFromTier1 ==
    [][(/\ lastCall.op = "get"
        /\ lastCall.tier1[lastCall.key] = <<>>
        /\ lastCall.returned # <<>>
        /\ lastCall'.op = "get"
        /\ lastCall'.key = lastCall.key)
           => /\ lastCall'.tier1[lastCall.key] # <<>>
              /\ lastCall'.returned = lastCall.returned]_vars

\* An entry stored before the page was loaded has been promoted some time
\* after it was written.
C25_Witness ==
    /\ lastCall.op = "get"
    /\ lastCall.tier1[lastCall.key] = <<>>
    /\ ClaimValidItem(lastCall.tier2[lastCall.key])
    /\ lastCall.returned # <<>>
    /\ now > 0
    /\ memoryCache[lastCall.key] # <<>>
    /\ memoryCache[lastCall.key][1].cachedAt = 0

\* What the claim lists: unparsable, another version, no numeric cachedAt,
\* no object payload, or expired.
ClaimInvalidItem(item) ==
    /\ item # <<>>
    /\ \/ item[1].json = <<>>
       \/ ~item[1].json[1].object
       \/ item[1].json[1].version # <<CACHE_VERSION>>
       \/ item[1].json[1].cachedAt = <<>>
       \/ item[1].json[1].payload = <<>>
       \/ ClaimItemAge(item) > ClaimSevenDaysMs

ClaimDiscarded ==
    /\ lastCall.returned = <<>>
    /\ localStorage[lastCall.key] = <<>>
    /\ memoryCache[lastCall.key] = <<>>

\* C26: a read that misses tier 1 and finds in tier 2 an item that does not
\* parse, is of another version, has no numeric cachedAt or no object
\* payload, or is older than seven days, removes the key from tier 2, leaves
\* tier 1 without the key and returns null.
C26_InvalidTier2EntryDiscarded ==
    (/\ lastCall.op = "get"
     /\ lastCall.tier1[lastCall.key] = <<>>
     /\ ClaimInvalidItem(lastCall.tier2[lastCall.key]))
        => ClaimDiscarded

\* C26 for the items that are not the empty string.
C26_NonEmptyInvalidDiscarded ==
    (/\ lastCall.op = "get"
     /\ lastCall.tier1[lastCall.key] = <<>>
     /\ ClaimInvalidItem(lastCall.tier2[lastCall.key])
     /\ ~lastCall.tier2[lastCall.key][1].empty)
        => ClaimDiscarded

\* C27: every write leaves its entry in tier 1, whatever the environment.
C27_EveryWriteReachesTier1 ==
    lastCall.op = "set" => memoryCache[lastCall.key] = lastCall.served

\* C27 where a window exists: the write leaves its entry in tier 1 whether
\* or not storage is usable and whether or not setItem throws, and a read of
\* the key that follows it returns the payload written; where no window
\* exists a write changes nothing and a read returns null.
C27_WriteReachesTier1InBrowser ==
    /\ [](lastCall.op = "set"
            => IF hasWindow
               THEN memoryCache[lastCall.key] = lastCall.served
               ELSE memoryCache = lastCall.tier1 /\ localStorage = lastCall.tier2)
    /\ [](lastCall.op = "get" /\ ~hasWindow => lastCall.returned = <<>>)
    /\ [][(lastCall.op = "set" /\ hasWindow
            /\ lastCall'.op = "get" /\ lastCall'.key = lastCall.key)
               => lastCall'.returned = <<lastCall.served[1].payload>>]_vars

\* A payload has been read back from tier 1 while tier 2 holds nothing for
\* the key: its tier-2 write failed or storage is unusable.
C27_Witness ==
    /\ lastCall.op = "get"
    /\ lastCall.returned # <<>>
    /\ lastCall.tier1[lastCall.key] # <<>>
    /\ lastCall.tier2[lastCall.key] = <<>>

-----------------------------------------------------------------------------
(* Claims about the cache keys.                                            *)

\* The one-decimal texts of the angles of [0, 360): "0.0" to "359.9".
ClaimAngleTexts == {ToString(t \div 10) \o "." \o ToString(t % 10) : t \in 0..3599}

\* The part of a key before its bearing component.
ClaimLatLngText(derivation) ==
    toFixed(derivation.lat, 10, 6) \o "|" \o toFixed(derivation.lng, 10, 6) \o "|"

ClaimBearingInRange(derivation) ==
    /\ \E angle \in ClaimAngleTexts :
           derivation.cacheKey
               = "streetview-cache:v2:" \o ClaimLatLngText(derivation) \o angle
    /\ derivation.fileKey # <<>>
           => \E angle \in ClaimAngleTexts :
                  derivation.fileKey[1] = ClaimLatLngText(derivation) \o angle

\* Two bearings that are congruent modulo 360, or both within the rounding
\* distance (0.05) of a multiple of 360.
ClaimSameAngle(a, b) ==
    \/ (a - b) % (360 * 100) = 0
    \/ /\ (a % (360 * 100) < 5 \/ a % (360 * 100) > 360 * 100 - 5)
       /\ (b % (360 * 100) < 5 \/ b % (360 * 100) > 360 * 100 - 5)

ClaimSamePlace(d, e) ==
    /\ toFixed(d.lat, 10, 6) = toFixed(e.lat, 10, 6)
    /\ toFixed(d.lng, 10, 6) = toFixed(e.lng, 10, 6)

\* C28: the bearing component of every key is the one-decimal text of an
\* angle of [0, 360), and two derivations for the same rounded place whose
\* bearings are congruent modulo 360, or within rounding distance of each
\* other across the 0/360 wrap, give one key.
C28_BearingComponentWithinCircle ==
    /\ \A i \in 1..Len(keyed) : ClaimBearingInRange(keyed[i])
    /\ (/\ Len(keyed) = 2
        /\ ClaimSamePlace(keyed[1], keyed[2])
        /\ keyed[1].bearing # <<>>
        /\ keyed[2].bearing # <<>>
        /\ ClaimSameAngle(keyed[1].bearing[1], keyed[2].bearing[1]))
           => /\ keyed[1].cacheKey = keyed[2].cacheKey
              /\ keyed[1].fileKey = keyed[2].fileKey

\* C28 without the wrap: places that agree to six decimals and bearings
\* congruent modulo 360 give one key, other places or other tenths another;
\* a bearing that is not finite gives the key of bearing 0.
C28_CongruentBearingsShareKey ==
    Len(keyed) = 2
        => LET d == keyed[1]
               e == keyed[2]
               tenths(b) == ((IF b = <<>> THEN 0 ELSE (b[1] % (360 * 100))) + 5) \div 10
           IN  /\ (ClaimSamePlace(d, e) /\ tenths(d.bearing) = tenths(e.bearing))
                      <=> d.cacheKey = e.cacheKey
               /\ (d.bearing # <<>> /\ e.bearing # <<>>)
                      => (d.cacheKey = e.cacheKey <=> d.fileKey = e.fileKey)

-----------------------------------------------------------------------------
(* Claims about the reset of the street image and about turns.             *)

\* The bearing of a heading, in hundredths of a degree.
ClaimBearingOf(h) ==
    CASE h = "north" -> 0
      [] h = "east" -> 90 * 100
      [] h = "south" -> 180 * 100
      [] h = "west" -> 270 * 100

\* The step starts exactly one fetch, for the place latLng and the heading h,
\* which has not reached the route yet.
ClaimStartsOneFetch(latLng, h) ==
    /\ Len(fetches') = Len(fetches) + 1
    /\ LET started == fetches'[Len(fetches')]
       IN  /\ started.lat = latLng[1]
           /\ started.lng = latLng[2]
           /\ started.bearing = ClaimBearingOf(h)
           /\ ~started.cancelled
           /\ started.client = "pending"
           /\ started.server = "unsent"

\* C29: every step that changes the position or the heading leaves the frame
\* list empty, the index 0, the error cleared and the loading flag set, and
\* starts the lookup for the new place with the bearing of the new heading,
\* not yet sent; and frames come onto the display only in a step that keeps
\* position and heading, as the result of the newest fetch, which was made
\* for that position and heading.  So frames fetched for one state are never
\* on the display with another.
C29_ChangeResetsStreetImage ==
    [][/\ (position' # position \/ heading' # heading)
            => /\ streetFrames' = <<>>
               /\ currentFrameIndex' = 0
               /\ streetImageError' = <<>>
               /\ isStreetImageLoading' = TRUE
               /\ ClaimStartsOneFetch(memo'.intersectionLatLng, heading')
       /\ (streetFrames' # streetFrames /\ streetFrames' # <<>>)
            => /\ position' = position
               /\ heading' = heading
               /\ lastCompletion'.fetch = Len(fetches)
               /\ ~lastCompletion'.cancelled
               /\ lastCompletion'.lat = memo.intersectionLatLng[1]
               /\ lastCompletion'.lng = memo.intersectionLatLng[2]
               /\ lastCompletion'.bearing = ClaimBearingOf(heading)]_vars

\* After a change of state whose predecessor had frames in the cache, the
\* fetch for the new state has put frames on the display.
C29_Witness ==
    /\ Len(fetches) = 2
    /\ fetches[1].cancelled
    /\ streetFrames # <<>>
    /\ lastCompletion.fetch = 2
    /\ \E e \in cacheStore :
           e.images # <<>> /\ <<e.lat, e.lng>> # memo.intersectionLatLng

\* C30: a step that changes the heading is the whole turn: in the same step
\* the position becomes the block ahead in the new heading when that block
\* is inside the grid (and stays otherwise), and exactly one fetch is
\* started, for the new place and the new heading; and every fetch that is
\* still live was made for the position and heading of the current state.
C30_TurnIsOneStateChange ==
    /\ [][heading' # heading
            => /\ position' = ClaimMoved(position, heading')
               /\ ClaimStartsOneFetch(renderMemo(position').intersectionLatLng,
                                      heading')]_vars
    /\ [](\A i \in 1..Len(fetches) :
              (~fetches[i].cancelled /\ fetches[i].client = "pending")
                  => /\ <<fetches[i].lat, fetches[i].lng>>
                          = renderMemo(position).intersectionLatLng
                     /\ fetches[i].bearing = ClaimBearingOf(heading))

\* A turn has just advanced one block and its fetch is the live one.
C30_Witness ==
    /\ lastOp.op \in {"turnLeft", "turnRight"}
    /\ lastOp.before.heading # heading
    /\ lastOp.before.position # position
    /\ Len(fetches) = 2
    /\ fetches[1].cancelled
    /\ ~fetches[2].cancelled
    /\ fetches[2].client = "pending"
    /\ lastCompletion = noCompletion

-----------------------------------------------------------------------------
(* Claims about the auto-advance timer.                                    *)

\* The effects of the render on the screen have run.
ClaimEffectsHaveRun == timerFor = Len(rendered.streetFrames)

\* A step in which an interval fires: the index moves and no fetch does.
ClaimTick ==
    /\ currentFrameIndex' # currentFrameIndex
    /\ fetches' = fetches
    /\ rendered' = rendered

\* Once the effects of the render on the screen have run, a timer is live
\* exactly when the list on the screen has more than one entry, there is one
\* timer at most, and it was created for a list of that length.
C31_TimerFollowsCommittedList ==
    ClaimEffectsHaveRun
        => /\ (intervals # {}) <=> (Len(rendered.streetFrames) > 1)
           /\ Cardinality(intervals) <= 1
           /\ \A interval \in intervals :
                  Len(interval.streetFrames) = Len(rendered.streetFrames)

\* The timer of a list of two frames has ticked on the screen.
C31_TimerTicked ==
    /\ intervals # {}
    /\ ClaimEffectsHaveRun
    /\ rendered.streetFrames = streetFrames
    /\ rendered.currentFrameIndex = 0
    /\ Len(fetches) = 1

\* C31: the auto-advance timer is live exactly when the frame list has more
\* than one entry (once the effects of a render have run), every tick sets
\* the index to (index + 1) modulo the number of frames of the list, and a
\* timer that is live was created for the list that is shown.
C31_TimerRunsForTheList ==
    /\ [](C31_TimerFollowsCommittedList)
    /\ [][ClaimTick
            => /\ Len(streetFrames) > 1
               /\ currentFrameIndex' = (currentFrameIndex + 1) % Len(streetFrames)]_vars

ClaimIndexFits(frames, index) ==
    IF Len(frames) = 0 THEN index = 0 ELSE index \in 0..(Len(frames) - 1)

\* C32: in every reachable state the index is 0 when the frame list is
\* empty and within the list otherwise, in the state and in what the
\* screen shows; and a tick only comes from a timer created for the current
\* list.
C32_IndexWithinFrames ==
    /\ [](ClaimIndexFits(streetFrames, currentFrameIndex))
    /\ [](ClaimIndexFits(rendered.streetFrames, rendered.currentFrameIndex))
    /\ [][ClaimTick
            => \A interval \in intervals : interval.streetFrames = streetFrames]_vars

\* The index stays within the frame list whenever that list is not empty.
C32_IndexWithinNonEmptyFrames ==
    /\ Len(streetFrames) > 0 => currentFrameIndex \in 0..(Len(streetFrames) - 1)
    /\ Len(rendered.streetFrames) > 0
           => rendered.currentFrameIndex \in 0..(Len(rendered.streetFrames) - 1)

-----------------------------------------------------------------------------
(* Claims about loops of turns.                                            *)

\* The heading after one turn of the kind op.
ClaimTurned(h, op) == IF op = "turnRight" THEN ClaimRightOf(h) ELSE ClaimLeftOf(h)

\* The corners a loop of four turns of the kind op visits from (p, h).
ClaimLoop(p, h, op) ==
    LET h1 == ClaimTurned(h, op)
        h2 == ClaimTurned(h1, op)
        h3 == ClaimTurned(h2, op)
        h4 == ClaimTurned(h3, op)
        p1 == ClaimAhead(p, h1)
        p2 == ClaimAhead(p1, h2)
        p3 == ClaimAhead(p2, h3)
        p4 == ClaimAhead(p3, h4)
    IN  <<p1, p2, p3, p4>>

ClaimLoopUnblocked(p, h, op) ==
    \A i \in 1..4 : ClaimInBounds(ClaimLoop(p, h, op)[i])

\* C33: from any state in which none of the four steps is blocked, four
\* consecutive turnRight calls, each turning and advancing one block, return
\* the position as well as the heading to the original; the same holds for
\* four turnLeft calls.
C33_FourTurnsCloseTheLoop ==
    (/\ lastOp.op \in {"turnLeft", "turnRight"}
     /\ run.count = 4
     /\ ClaimLoopUnblocked(run.position, run.heading, lastOp.op))
        => /\ position = run.position
           /\ heading = run.heading
           /\ lastOp.position = ClaimLoop(run.position, run.heading, lastOp.op)[3]

\* Four left turns around a block, every one of which advanced.
C33_Witness ==
    /\ lastOp.op = "turnLeft"
    /\ run.count = 4
    /\ ClaimLoopUnblocked(run.position, run.heading, "turnLeft")
    /\ position = run.position
    /\ lastOp.position # position
    /\ lastOp.before.position # lastOp.position

-----------------------------------------------------------------------------
(* Claims about a move that is refused.                                    *)

\* The step is a moveForward or a moveBackward that was refused.
ClaimBlockedMove ==
    /\ lastOp'.op \in {"moveForward", "moveBackward"}
    /\ navVars' # navVars
    /\ position' = position

\* C34: a blocked moveForward or moveBackward changes only the status line:
\* it does not cancel the in-flight imagery fetch, start a new fetch, clear
\* the displayed frames, reset the displayed index, or restart the
\* auto-advance timer (the timer changes only if the effect was still owed to
\* an earlier render).
C34_BlockedMoveOnlyStatus ==
    [][ClaimBlockedMove
         => /\ fetches' = fetches
            /\ display' = display
            /\ rendered' = rendered
            /\ heading' = heading
            /\ autoAdvanceDue
                  \/ (intervals' = intervals /\ timersStarted' = timersStarted)]_vars

\* A move was refused while a fetch was in flight, two frames were on the
\* screen and their timer was running.
C34_Witness ==
    /\ lastOp.op \in {"moveForward", "moveBackward"}
    /\ position = lastOp.position
    /\ statusLine \in {cantHeadStatus(heading),
                       cantBackStatus(oppositeHeading[heading])}
    /\ fetches[Len(fetches)].client = "pending"
    /\ ~fetches[Len(fetches)].cancelled
    /\ Len(rendered.streetFrames) = 2
    /\ \E interval \in intervals : interval.streetFrames = rendered.streetFrames

-----------------------------------------------------------------------------
(* Claims about the street image on the screen after a change of state.    *)

\* C29, on the screen: when a step changes the position or the heading, the
\* render that shows the new position and heading shows an empty frame
\* list, so that frames of the previous state are never displayed together
\* with the new position or heading.
C29_NoStaleFramesOnScreen ==
    [][(position' # position \/ heading' # heading)
         => rendered'.streetFrames = <<>>]_vars

-----------------------------------------------------------------------------
(* Claims about the durable tier shared by several sessions.               *)

\* C35: with the durable tier shared by several sessions, a read in one
\* session never removes from the durable tier an entry that is valid and
\* unexpired, in particular one written more recently by another session for
\* the same key.
C35_ReadKeepsValidSharedEntry ==
    (/\ lastCall.op = "get"
     /\ ClaimValidItem(lastCall.tier2[lastCall.key])
     /\ ClaimItemAge(lastCall.tier2[lastCall.key]) <= ClaimSevenDaysMs)
        => localStorage[lastCall.key] = lastCall.tier2[lastCall.key]

-----------------------------------------------------------------------------
(* Claims about a durable tier that fails.                                 *)

\* C36: a cache read never fails: whatever the durable tier does (getItem or
\* removeItem throwing, or returning unparsable data), getCachedStreetView
\* completes by returning a payload or absent and never propagates an error
\* to the caller.
C36_ReadNeverThrows ==
    lastCall.op = "get" => ~lastCall.threw

\* A read that throws found no memory entry for its key and leaves both
\* tiers as they were.
C36_ThrowLeavesTiers ==
    (lastCall.op = "get" /\ lastCall.threw)
        => /\ lastCall.tier1[lastCall.key] = <<>>
           /\ localStorage = lastCall.tier2
           /\ memoryCache = lastCall.tier1

-----------------------------------------------------------------------------
(* Claims about the file-backed cache under concurrent calls.              *)

ClaimSameFileKey(a, b) == fileKeyOf(a.req) = fileKeyOf(b.req)

\* C37: in the file-backed cache, once setCachedStreetView(key, p) has
\* completed, a later getCachedStreetView(key) in the same process within
\* the TTL returns p or a payload written later for that key, also when
\* other get/set calls (including the first cache load) run concurrently
\* and interleave at their awaits; no completed write is lost.
C37_NoCompletedWriteLost ==
    \A g \in 1..Len(fileCalls) :
        (fileCalls[g].op = "get" /\ fileCalls[g].decided)
            => \A s \in fileCalls[g].after :
                   (/\ ClaimSameFileKey(fileCalls[s], fileCalls[g])
                    /\ fileCalls[g].decidedAt - fileCalls[s].decidedAt
                           <= ClaimSevenDaysMs)
                       => \E t \in 1..Len(fileCalls) :
                              /\ fileCalls[t].op = "set"
                              /\ ClaimSameFileKey(fileCalls[t], fileCalls[s])
                              /\ fileCalls[t].put >= fileCalls[s].put
                              /\ fileCalls[g].returned = fileCalls[t].payload

\* A completed write is lost only where two calls of loadCache have both
\* assigned cacheStore.
C37_LostOnlyAfterTwoLoads ==
    C37_NoCompletedWriteLost \/ Len(objects) > 1

-----------------------------------------------------------------------------
(* Claims about the loading flag.                                          *)

\* The fetch for the current position and heading is outstanding.
ClaimCurrentFetchOutstanding ==
    /\ fetches # <<>>
    /\ fetches[Len(fetches)].client = "pending"
    /\ ~fetches[Len(fetches)].cancelled
    /\ fetches[Len(fetches)].lat = memo.intersectionLatLng[1]
    /\ fetches[Len(fetches)].lng = memo.intersectionLatLng[2]
    /\ fetches[Len(fetches)].bearing = headingBearings[heading] * 100

\* C38: the loading flag is true exactly while the fetch for the current
\* (position, heading) is outstanding: once that fetch settles, by success
\* or by error, the flag is false, and it stays false for as long as the
\* position and the heading stay; the settling of a cancelled fetch never
\* clears it.
C38_LoadingWhileCurrentFetchOutstanding ==
    /\ [](isStreetImageLoading <=> ClaimCurrentFetchOutstanding)
    /\ [][(lastCompletion'.fetch # 0 /\ lastCompletion'.cancelled)
             => isStreetImageLoading' = isStreetImageLoading]_vars
    /\ [][(~isStreetImageLoading /\ position' = position /\ heading' = heading)
             => ~isStreetImageLoading']_vars

\* The fetch of the current state has just settled by an error and cleared
\* the flag, after the fetch before it, cancelled, had settled with the flag
\* still set.
C38_Witness ==
    /\ Len(fetches) = 2
    /\ fetches[1].cancelled
    /\ fetches[1].client = "settled"
    /\ lastCompletion.fetch = 2
    /\ ~lastCompletion.cancelled
    /\ lastCompletion.before[1].isStreetImageLoading
    /\ ~isStreetImageLoading
    /\ streetImageError # <<>>

====
